---- MODULE Spec2Model ----
(***************************************************************************)
(* A model of the scan execution engine of kudu-rs: Scan::poll,            *)
(* TabletScan::poll and RowBatch::new of src/src/scanner.rs, driven by a   *)
(* meta cache, a replica RPC driver and a tablet server.  The meta cache   *)
(* (meta_cache.rs), the replica RPC driver (replica.rs), the schema        *)
(* (schema.rs) and the tablet server are not among the source files; they  *)
(* are modelled from the specification and marked so in MODEL_MAP.json.    *)
(***************************************************************************)
EXTENDS Integers, Sequences, FiniteSets, TLC

(***************************************************************************)
(* Bounds of the model.                                                    *)
(***************************************************************************)
\* rows held by one tablet: 0..MaxTabletRows
MaxTabletRows == 3
\* rows a tablet server puts in one response
MaxBatchRows == 1
\* replicas of every tablet
NumReplicas == 2
\* tablets a get-table-locations response returns (max_returned_locations)
MaxLocations == 2

Replicas == 1..NumReplicas

(***************************************************************************)
(* Keys: byte strings in memcmp order.  An empty lower bound is -infinity, *)
(* an empty upper bound is +infinity.                                      *)
(***************************************************************************)
RECURSIVE KeyLess(_, _)
KeyLess(a, b) ==
    IF b = <<>> THEN FALSE
    ELSE IF a = <<>> THEN TRUE
    ELSE IF a[1] # b[1] THEN a[1] < b[1]
    ELSE KeyLess(Tail(a), Tail(b))

KeyLE(a, b) == a = b \/ KeyLess(a, b)

\* the keys at which the key space of a table may be split
SplitKeys == << <<1>> >>

(***************************************************************************)
(* Option<T>: <<>> is None, <<v>> is Some(v).                              *)
(***************************************************************************)
None == <<>>
Some(v) == <<v>>

(***************************************************************************)
(* Schema.  The table of the tests: key Int32 not null, val Int32          *)
(* nullable, primary key (key).                                            *)
(***************************************************************************)
TableSchema ==
    << [name |-> "key", type |-> "Int32", nullable |-> FALSE],
       [name |-> "val", type |-> "Int32", nullable |-> TRUE] >>

\* DataType::size: the width of a value in a contiguous row
TypeSize(t) ==
    CASE t = "Bool" -> 1
      [] t = "Int8" -> 1
      [] t = "Int16" -> 2
      [] t = "Int32" -> 4
      [] t = "Int64" -> 8
      [] t = "Timestamp" -> 8
      [] t = "Float" -> 4
      [] t = "Double" -> 8
      [] t = "Binary" -> 16
      [] t = "String" -> 16

IsVarLen(t) == t \in {"Binary", "String"}

RECURSIVE SumSizes(_)
SumSizes(cols) ==
    IF cols = <<>> THEN 0 ELSE TypeSize(cols[1].type) + SumSizes(Tail(cols))

\* Schema::row_len: the fixed width of a row, without the null bitmap
SchemaRowLen(schema) == SumSizes(schema)

\* Schema::has_nullable_columns
HasNullableColumns(schema) == \E i \in 1..Len(schema) : schema[i].nullable

\* Schema::bitmap_len
BitmapLen(schema) == (Len(schema) + 7) \div 8

\* Schema::var_len_column_offsets: the offsets of the variable-length slots
VarLenColumnOffsets(schema) ==
    { SumSizes(SubSeq(schema, 1, i - 1)) :
        i \in { j \in 1..Len(schema) : IsVarLen(schema[j].type) } }

\* Schema::check_index
CheckIndex(schema, idx) == idx >= 0 /\ idx < Len(schema)

(***************************************************************************)
(* RowBatch::new.  A usize that came from a negative i32 (num_rows as      *)
(* usize) is held as its two's-complement signed representative, i.e. a    *)
(* negative n stands for 2^64 + n.                                         *)
(***************************************************************************)
NoBatch == [projected_schema |-> <<>>, len |-> 0, data |-> <<>>, indirect_data |-> <<>>]

BatchErr(e) == [ok |-> FALSE, err |-> e, batch |-> NoBatch]
BatchOk(b) == [ok |-> TRUE, err |-> "", batch |-> b]

\* the row length RowBatch::new and the iterator use
BatchRowLen(schema) ==
    SchemaRowLen(schema) + (IF HasNullableColumns(schema) THEN BitmapLen(schema) ELSE 0)

\* a variant of checked_mul that takes a negative num_rows for 0
CheckedMulClamped(num_rows, row_len) ==
    IF num_rows >= 0 THEN Some(num_rows * row_len) ELSE Some(0)

\* usize::checked_mul(num_rows, row_len): None on overflow of 64 bits
CheckedMul(num_rows, row_len) ==
    IF num_rows >= 0 THEN Some(num_rows * row_len)
    ELSE IF row_len = 0 THEN Some(0)
    ELSE IF row_len = 1 THEN Some(num_rows)
    ELSE None

\* a variant of TakeRowsSidecar that copies the sidecar and leaves it in place
TakeRowsSidecarCopy(block, sidecars) ==
    LET rs == block.rows_sidecar IN
    IF rs = None THEN [ok |-> FALSE, data |-> <<>>, rest |-> sidecars]
    ELSE IF rs[1] < 0 THEN [ok |-> FALSE, data |-> <<>>, rest |-> sidecars]
    ELSE IF rs[1] >= Len(sidecars) THEN [ok |-> FALSE, data |-> <<>>, rest |-> sidecars]
    ELSE [ok |-> TRUE, data |-> sidecars[rs[1] + 1], rest |-> sidecars]

\* lines 215-225: the rows sidecar is taken out of the sidecars
TakeRowsSidecar(block, sidecars) ==
    LET rs == block.rows_sidecar IN
    IF rs = None THEN [ok |-> FALSE, data |-> <<>>, rest |-> sidecars]
    ELSE IF rs[1] < 0 THEN [ok |-> FALSE, data |-> <<>>, rest |-> sidecars]
    ELSE IF rs[1] >= Len(sidecars) THEN [ok |-> FALSE, data |-> <<>>, rest |-> sidecars]
    ELSE [ok |-> TRUE, data |-> sidecars[rs[1] + 1],
          rest |-> [sidecars EXCEPT ![rs[1] + 1] = <<>>]]

\* a variant of TakeIndirectSidecar that takes an index past the sidecars for
\* an absent one
TakeIndirectSidecarLenient(block, sidecars) ==
    LET is == block.indirect_data_sidecar IN
    IF is = None THEN [ok |-> TRUE, data |-> <<>>]
    ELSE IF is[1] < 0 THEN [ok |-> FALSE, data |-> <<>>]
    ELSE IF is[1] >= Len(sidecars) THEN [ok |-> TRUE, data |-> <<>>]
    ELSE [ok |-> TRUE, data |-> sidecars[is[1] + 1]]

\* lines 227-236: the indirect data sidecar, from what the first step left
TakeIndirectSidecar(block, sidecars) ==
    LET is == block.indirect_data_sidecar IN
    IF is = None THEN [ok |-> TRUE, data |-> <<>>]
    ELSE IF is[1] < 0 THEN [ok |-> FALSE, data |-> <<>>]
    ELSE IF is[1] >= Len(sidecars) THEN [ok |-> FALSE, data |-> <<>>]
    ELSE [ok |-> TRUE, data |-> sidecars[is[1] + 1]]

\* indirect_data.as_ptr(): the address of the indirect data buffer
IndirectBase == 4096

\* a u64 in 8 little-endian bytes; the values of the model stay below 2^24
WriteLE64(v) == << v % 256, (v \div 256) % 256, (v \div 65536) % 256, 0, 0, 0, 0, 0 >>
ReadLE64(data, off) == data[off + 1] + 256 * data[off + 2] + 65536 * data[off + 3]

\* lines 256-268: in every row, the offset in every variable-length slot is
\* replaced by the address indirect_data.as_ptr() + offset, unchecked
RewritePointers(schema, data, row_len, base) ==
    IF VarLenColumnOffsets(schema) = {} THEN data
    ELSE LET slots == { (r - 1) * row_len + o :
                          r \in 1..(Len(data) \div row_len),
                          o \in VarLenColumnOffsets(schema) }
         IN [k \in 1..Len(data) |->
               IF \E sl \in slots : sl < k /\ k <= sl + 8
               THEN LET sl == CHOOSE x \in slots : x < k /\ k <= x + 8
                    IN WriteLE64(base + ReadLE64(data, sl))[k - sl]
               ELSE data[k]]

\* a variant of BatchLen that counts bytes
BatchLenBytes(num_rows, data) == Len(data)

\* line 272: the row count of the batch
BatchLen(num_rows, data) == num_rows

RowBatchNew(projected_schema, block, sidecars) ==
    LET rows == TakeRowsSidecar(block, sidecars) IN
    IF ~rows.ok THEN BatchErr("Serialization")
    ELSE
    LET ind == TakeIndirectSidecar(block, rows.rest) IN
    IF ~ind.ok THEN BatchErr("Serialization")
    ELSE
    LET row_len == BatchRowLen(projected_schema)
        num_rows == block.num_rows
        prod == CheckedMul(num_rows, row_len)
    IN
    IF prod = None THEN BatchErr("Serialization")
    ELSE IF prod[1] # Len(rows.data) THEN BatchErr("Serialization")
    ELSE BatchOk([projected_schema |-> projected_schema,
                  len |-> BatchLen(num_rows, rows.data),
                  data |-> RewritePointers(projected_schema, rows.data, row_len, IndirectBase),
                  indirect_data |-> ind.data])

(***************************************************************************)
(* The rowwise wire format a tablet server writes (little-endian values,   *)
(* a trailing null bitmap when a projected column is nullable).  Row r of  *)
(* the tests' table is (key = r, val = r).                                 *)
(***************************************************************************)
LE32(v) == << v % 256, (v \div 256) % 256, (v \div 65536) % 256, (v \div 16777216) % 256 >>

RECURSIVE WireCells(_, _)
WireCells(schema, r) ==
    IF schema = <<>> THEN <<>> ELSE LE32(r) \o WireCells(Tail(schema), r)

WireRow(schema, r) ==
    WireCells(schema, r)
      \o (IF HasNullableColumns(schema) THEN [i \in 1..BitmapLen(schema) |-> 0] ELSE <<>>)

RECURSIVE WireRows(_, _)
WireRows(schema, rows) ==
    IF rows = <<>> THEN <<>> ELSE WireRow(schema, rows[1]) \o WireRows(schema, Tail(rows))

\* what a consumer reads back: the key of the i-th row of a batch (Row::get)
ReadLE32(data, off) ==
    data[off + 1] + 256 * data[off + 2] + 65536 * data[off + 3] + 16777216 * data[off + 4]

BatchKeys(batch) ==
    LET row_len == BatchRowLen(batch.projected_schema) IN
    [i \in 1..batch.len |-> ReadLE32(batch.data, (i - 1) * row_len)]

(***************************************************************************)
(* Tables: a partition of the key space into tablets and non-covered       *)
(* ranges.  Rows are numbered 1..R along the tablets.                      *)
(***************************************************************************)
RECURSIVE PickSplits(_)
PickSplits(S) ==
    IF S = {} THEN <<>>
    ELSE LET m == CHOOSE i \in S : \A j \in S : i <= j
         IN <<SplitKeys[m]>> \o PickSplits(S \ {m})

RECURSIVE SumTo(_, _)
SumTo(cnt, i) == IF i = 0 THEN 0 ELSE cnt[i] + SumTo(cnt, i - 1)

MakeTable(S, covered, cnt) ==
    LET bounds == <<None>> \o PickSplits(S) \o <<None>> IN
    [i \in 1..(Len(bounds) - 1) |->
        [tablet |-> covered[i],
         id |-> i,
         lower_bound |-> bounds[i],
         upper_bound |-> bounds[i + 1],
         rows |-> [k \in 1..cnt[i] |-> SumTo(cnt, i - 1) + k]]]

\* the tables of the model: every split of the key space, every choice of
\* covered ranges, and n rows in each tablet
Tables ==
    UNION { { MakeTable(S, covered, [i \in 1..(Cardinality(S) + 1) |->
                                       IF covered[i] THEN n ELSE 0]) :
                covered \in [1..(Cardinality(S) + 1) -> BOOLEAN],
                n \in 0..MaxTabletRows }
            : S \in SUBSET (1..Len(SplitKeys)) }

(***************************************************************************)
(* State.                                                                  *)
(***************************************************************************)
VARIABLES
    table,      \* the table on the servers: its tablets and non-covered ranges
    builder,    \* the ScanBuilder: [live, projected_columns]
    scan,       \* the Scan: [state, projected_schema, lookup, tablet, tablet_scan]
    cache,      \* the meta cache: the entries of the table it has learned
    attempts,   \* the attempts in flight: requests sent and not yet answered
    scanners,   \* the server-side scanners
    lookups,    \* history: the keys passed to TableLocations::entry
    calls,      \* history: the logical scan RPCs created (ReplicaRpc::new)
    yielded,    \* history: the batches Scan::poll returned
    ended,      \* history: a Scan::poll returned the end of the stream
    failure,    \* history: the error a Scan::poll returned, "" while none
    dec,        \* the decoder on its own: [schema, block, sidecars, done, out]
    iter,       \* a RowBatchIter on its own: [batch, st, row_len, rest, front, back, fin]
    codec,      \* the key codec and the hash on their own
    error,      \* an Error being classified: [e, called, fatal, retriable]
    meta_cache, \* the meta cache of a table on its own, with its callers
    replica_rpc \* a ReplicaRpc on its own, with its attempts and the clock

vars == << table, builder, scan, cache, attempts, scanners,
           lookups, calls, yielded, ended, failure, dec, iter, codec, error, meta_cache, replica_rpc >>

scanVars == << table, builder, scan, cache, attempts, scanners,
               lookups, calls, yielded, ended, failure >>

\* the error classes a lookup or a logical RPC can surface
RecoverableErrors == {"TabletGone", "LeaderMoved"}
ErrorKinds == RecoverableErrors \cup {"Fatal"}

(***************************************************************************)
(* Poll results: Async::NotReady, Async::Ready(Some(batch)),               *)
(* Async::Ready(None), Err(e).                                             *)
(***************************************************************************)
NotReady == [tag |-> "NotReady", batch |-> NoBatch, err |-> ""]
ReadyBatch(b) == [tag |-> "Batch", batch |-> b, err |-> ""]
ReadyNone == [tag |-> "End", batch |-> NoBatch, err |-> ""]
Err(e) == [tag |-> "Err", batch |-> NoBatch, err |-> e]

(***************************************************************************)
(* The meta cache (TableLocations).                                        *)
(***************************************************************************)
\* the entry of the table whose range contains key
EntryIndex(key) ==
    CHOOSE i \in 1..Len(table) :
        /\ KeyLE(table[i].lower_bound, key)
        /\ (table[i].upper_bound = None \/ KeyLess(key, table[i].upper_bound))

LookupPending == [tag |-> "Pending", idx |-> 0, err |-> ""]
LookupReady(i) == [tag |-> "Ready", idx |-> i, err |-> ""]
LookupFailed(e) == [tag |-> "Failed", idx |-> 0, err |-> e]
NoLookup == [key |-> None, res |-> LookupPending]

\* TableLocations::entry(key): ready at once on a cache hit, else a fetch is pending
TableLocationsEntry(key) ==
    [key |-> key,
     res |-> IF EntryIndex(key) \in cache THEN LookupReady(EntryIndex(key))
             ELSE LookupPending]

(***************************************************************************)
(* ReplicaRpc: one logical RPC.  target 0 is the tablet (all its           *)
(* replicas), target r > 0 is the proxy of replica r.                      *)
(***************************************************************************)
RpcPending == [tag |-> "Pending", proxy |-> 0, err |-> "", response |-> <<>>]
RpcOk(proxy, response) == [tag |-> "Ok", proxy |-> proxy, err |-> "", response |-> <<response>>]
RpcFailed(e) == [tag |-> "Failed", proxy |-> 0, err |-> e, response |-> <<>>]

NoRpc == [id |-> 0, target |-> 0, speculation |-> "None", request |-> <<>>,
          tried |-> {}, res |-> RpcPending]

ReplicaRpcNew(id, target, request, speculation) ==
    [id |-> id, target |-> target, speculation |-> speculation,
     request |-> <<request>>, tried |-> {}, res |-> RpcPending]

\* the replicas a logical RPC may send an attempt to
Eligible(rpc) == IF rpc.target = 0 THEN Replicas ELSE {rpc.target}

(***************************************************************************)
(* TabletScan.                                                             *)
(***************************************************************************)
\* TabletId::to_string().into_bytes(): the id in decimal digits
RECURSIVE TabletIdBytes(_)
TabletIdBytes(id) ==
    IF id < 10 THEN << 48 + id >> ELSE TabletIdBytes(id \div 10) \o << 48 + (id % 10) >>

\* the tablet server reads the id back
RECURSIVE ParseTabletId(_)
ParseTabletId(bytes) ==
    IF bytes = <<>> THEN 0
    ELSE 10 * ParseTabletId(SubSeq(bytes, 1, Len(bytes) - 1)) + (bytes[Len(bytes)] - 48)

\* column_to_pb
ColumnToPb(column) ==
    [name |-> column.name, type_ |-> column.type, is_nullable |-> Some(column.nullable)]

\* the tablet server reads the column back; an absent is_nullable is false
ColumnFromPb(pb) ==
    [name |-> pb.name, type |-> pb.type_,
     nullable |-> IF pb.is_nullable = None THEN FALSE ELSE pb.is_nullable[1]]

SchemaFromPb(pbs) == [i \in 1..Len(pbs) |-> ColumnFromPb(pbs[i])]

\* a variant of new_scan_request that asks for every column of the table
NewScanRequestAllColumns(projected_schema, tablet) ==
    [tablet_id |-> TabletIdBytes(tablet),
     projected_columns |-> [i \in 1..Len(TableSchema) |-> ColumnToPb(TableSchema[i])]]

\* Scan::new_scan_request
NewScanRequest(projected_schema, tablet) ==
    [tablet_id |-> TabletIdBytes(tablet),
     projected_columns |-> [i \in 1..Len(projected_schema) |-> ColumnToPb(projected_schema[i])]]

\* ScanRequestPb::default() leaves close_scanner unset
OpenRequest(new_scan_request) ==
    [new_scan_request |-> Some(new_scan_request), scanner_id |-> None, call_seq_id |-> None,
     close_scanner |-> None]

ContinueRequest(scanner_id, call_seq_id) ==
    [new_scan_request |-> None, scanner_id |-> Some(scanner_id),
     call_seq_id |-> Some(call_seq_id), close_scanner |-> None]

TabletScanFinished ==
    [st |-> "Finished", scanner_id |-> <<0, 0>>, call_seq_id |-> 0, rpc |-> NoRpc]

\* TabletScan::new
TabletScanNew(id, new_scan_request) ==
    [st |-> "New", scanner_id |-> <<0, 0>>, call_seq_id |-> 0,
     rpc |-> ReplicaRpcNew(id, 0, OpenRequest(new_scan_request), "Staggered")]

\* a variant of TabletScan::cont that addresses the tablet, not the proxy
TabletScanContOnTablet(id, scanner_id, call_seq_id, proxy) ==
    [st |-> "Continue", scanner_id |-> scanner_id, call_seq_id |-> call_seq_id,
     rpc |-> ReplicaRpcNew(id, 0, ContinueRequest(scanner_id, call_seq_id), "Full")]

\* TabletScan::cont
TabletScanCont(id, scanner_id, call_seq_id, proxy) ==
    [st |-> "Continue", scanner_id |-> scanner_id, call_seq_id |-> call_seq_id,
     rpc |-> ReplicaRpcNew(id, proxy, ContinueRequest(scanner_id, call_seq_id), "Full")]

NoTabletScan == [st |-> "None", scanner_id |-> <<0, 0>>, call_seq_id |-> 0, rpc |-> NoRpc]

\* the call_seq_id of the first continue-scan request of a scanner
FirstCallSeqId == 1

\* a variant of NextCallSeqId that repeats the call_seq_id
NextCallSeqIdSame(call_seq_id) == call_seq_id

\* the call_seq_id of the continue-scan request after call_seq_id
NextCallSeqId(call_seq_id) == call_seq_id + 1

\* response.data.take().unwrap_or_default()
DefaultBlock == [num_rows |-> 0, rows_sidecar |-> None, indirect_data_sidecar |-> None]
UnwrapOrDefault(data) == IF data = None THEN DefaultBlock ELSE data[1]

(***************************************************************************)
(* A poll works on w = [scan, lookups, calls, attempts]: the Scan and       *)
(* what a poll adds to the attempts in flight and to the histories.        *)
(***************************************************************************)
\* a logical call: open names the open-scan call whose scanner the call is on
CallRecord(id, kind, tablet, open, call_seq_id) ==
    [id |-> id, kind |-> kind, tablet |-> tablet, open |-> open,
     call_seq_id |-> call_seq_id]

\* ReplicaRpc::poll while no response has arrived: the first poll sends the
\* request to one eligible replica (pick, for a tablet), and the poll is NotReady
ReplicaRpcStart(w, pick) ==
    LET ts == w.scan.tablet_scan
        rpc == ts.rpc
        r == IF rpc.target = 0 THEN pick ELSE rpc.target
        a == [rpc |-> rpc.id, replica |-> r, request |-> rpc.request[1]]
    IN
    IF rpc.tried # {} THEN w
    ELSE [w EXCEPT !.scan.tablet_scan.rpc.tried = {r},
                   !.attempts = @ \cup {a}]

\* a variant of the open-scan arm that never continues
TabletScanAfterNewFinished(w, schema, response, proxy) ==
    [ok |-> TRUE, ts |-> TabletScanFinished]

\* ScannerId::parse_bytes: the bytes of a scanner id, or nothing for bytes
\* that are not one
ScannerIdParseBytes(bytes) == IF Len(bytes) = 2 THEN Some(bytes) ELSE None

\* bytes on the wire that are no scanner id
MalformedScannerId == << 0 >>

\* lines 384-386: expect_field("ScanResponsePb", "scanner_id")? and parse_bytes(..)?
ResponseScannerId(response) ==
    IF response.scanner_id = None THEN None
    ELSE ScannerIdParseBytes(response.scanner_id[1])

\* a variant of the open-scan arm that takes a response without a usable
\* scanner_id as the last of the tablet
TabletScanAfterNewLenient(w, schema, response, proxy) ==
    IF response.has_more_results /\ ResponseScannerId(response) # None
    THEN [ok |-> TRUE,
          ts |-> TabletScanCont(Len(w.calls) + 1, ResponseScannerId(response)[1],
                                FirstCallSeqId, proxy)]
    ELSE [ok |-> TRUE, ts |-> TabletScanFinished]

\* lines 383-391: the TabletScan after the open-scan response
TabletScanAfterNew(w, schema, response, proxy) ==
    IF response.has_more_results
    THEN LET id == ResponseScannerId(response) IN
         [ok |-> id # None,
          ts |-> IF id = None THEN w.scan.tablet_scan
                 ELSE TabletScanCont(Len(w.calls) + 1, id[1], FirstCallSeqId, proxy)]
    ELSE [ok |-> TRUE, ts |-> TabletScanFinished]

\* lines 401-405: the TabletScan after a continue-scan response
TabletScanAfterContinue(w, schema, response, proxy) ==
    IF response.has_more_results
    THEN [ok |-> TRUE,
          ts |-> TabletScanCont(Len(w.calls) + 1, w.scan.tablet_scan.scanner_id,
                                NextCallSeqId(w.scan.tablet_scan.call_seq_id), proxy)]
    ELSE [ok |-> TRUE, ts |-> TabletScanFinished]

\* a variant of CancelAttempts that leaves the attempts in flight
CancelAttemptsNone(as, id) == as

\* dropping a ReplicaRpc cancels its attempts in flight: their responses are
\* never delivered
CancelAttempts(as, id) == { a \in as : a.rpc # id }

\* the history of logical calls, with the call a new TabletScan makes
LogCall(w, ts) ==
    IF ts.st = "Continue"
    THEN Append(w.calls, CallRecord(ts.rpc.id, "continue", w.scan.tablet,
                                    ts.scanner_id[1], ts.call_seq_id))
    ELSE w.calls

\* a variant of the finished TabletScan's poll that never reports the end
TabletScanPollFinishedNotReady == NotReady

\* line 409: the poll of a finished TabletScan
TabletScanPollFinished == ReadyNone

\* TabletScan::poll
TabletScanPoll(w, pick) ==
    LET ts == w.scan.tablet_scan
        rpc == ts.rpc
        schema == w.scan.projected_schema
    IN
    IF ts.st = "Finished" THEN [w |-> w, ret |-> TabletScanPollFinished]
    ELSE IF rpc.res.tag = "Pending" THEN [w |-> ReplicaRpcStart(w, pick), ret |-> NotReady]
    ELSE IF rpc.res.tag = "Failed" THEN [w |-> w, ret |-> Err(rpc.res.err)]
    ELSE
    LET response == rpc.res.response[1]
        proxy == rpc.res.proxy
        b == RowBatchNew(schema, UnwrapOrDefault(response.data), response.sidecars)
        next == IF ts.st = "New" THEN TabletScanAfterNew(w, schema, response, proxy)
                ELSE TabletScanAfterContinue(w, schema, response, proxy)
    IN
    IF ~b.ok THEN [w |-> w, ret |-> Err(b.err)]
    ELSE IF ~next.ok THEN [w |-> w, ret |-> Err("Serialization")]
    ELSE [w |-> [w EXCEPT !.scan.tablet_scan = next.ts, !.calls = LogCall(w, next.ts),
                          !.attempts = CancelAttempts(@, rpc.id)],
          ret |-> ReadyBatch(b.batch)]

(***************************************************************************)
(* Scan::poll.                                                             *)
(***************************************************************************)
\* mem::replace(&mut self.state, ScannerState::Finished), and what the match
\* arms that assign no state leave behind
ScanFinished(w) ==
    [w EXCEPT !.scan.state = "Finished", !.scan.lookup = NoLookup,
              !.scan.tablet = 0, !.scan.tablet_scan = NoTabletScan,
              !.attempts = CancelAttempts(@, w.scan.tablet_scan.rpc.id)]

\* self.state = ScannerState::Lookup(self.table_locations.entry(key))
ScanLookup(w, key) ==
    [w EXCEPT !.scan.state = "Lookup", !.scan.lookup = TableLocationsEntry(key),
              !.scan.tablet = 0, !.scan.tablet_scan = NoTabletScan,
              !.lookups = Append(@, key)]

\* lines 160-165: the lookup resolved to a tablet
ScanOnTablet(w, idx) ==
    [w EXCEPT !.scan.state = "Scan", !.scan.lookup = NoLookup,
              !.scan.tablet = idx,
              !.scan.tablet_scan =
                  TabletScanNew(Len(w.calls) + 1,
                                NewScanRequest(w.scan.projected_schema, table[idx].id)),
              !.calls = Append(@, CallRecord(Len(w.calls) + 1, "open", idx,
                                                  Len(w.calls) + 1, 0))]

\* a variant of ScanOnNonCoveredRange without the is_empty test
ScanOnNonCoveredRangeAlways(w, upper_bound) == ScanLookup(w, upper_bound)

\* a variant of ScanOnNonCoveredRange that ends the scan at every such range
ScanOnNonCoveredRangeFinish(w, upper_bound) == ScanFinished(w)

\* lines 166-169: the lookup resolved to a non-covered range
ScanOnNonCoveredRange(w, upper_bound) ==
    IF upper_bound # <<>> THEN ScanLookup(w, upper_bound) ELSE ScanFinished(w)

\* a variant of ScanOnEndOfTablet that ends the scan after the first tablet
ScanOnEndOfTabletStop(w, upper_bound) == ScanFinished(w)

\* a variant of ScanOnEndOfTablet that looks the start of the table up again
ScanOnEndOfTabletRestart(w, upper_bound) ==
    IF upper_bound # <<>> THEN ScanLookup(w, <<>>) ELSE ScanFinished(w)

\* a variant of ScanOnEndOfTablet without the is_empty test
ScanOnEndOfTabletAlways(w, upper_bound) == ScanLookup(w, upper_bound)

\* lines 182-185: the tablet scan reported the end of the tablet
ScanOnEndOfTablet(w, upper_bound) ==
    IF upper_bound # <<>> THEN ScanLookup(w, upper_bound) ELSE ScanFinished(w)

\* a variant of ScanOnError that keeps the state the poll found
ScanOnErrorKeep(w, e) == [w |-> w, ret |-> Err(e)]

\* the ? of lookup.poll()? and tablet_scan.poll()?: the state stays Finished
ScanOnError(w, e) == [w |-> ScanFinished(w), ret |-> Err(e)]

\* an upper bound on the turns of the loop of one poll
LoopBound == Len(table) + 2

\* a variant of ScanOnNotReady that leaves the Finished of mem::replace
ScanOnNotReadyFinished(w) == [w |-> ScanFinished(w), ret |-> NotReady]

\* lines 170-173, 186-189: the child is not ready, the state is put back
ScanOnNotReady(w) == [w |-> w, ret |-> NotReady]

\* a variant of ScanOnFinished that reports the end and starts over from the first key
ScanOnFinishedRestart(w) == [w |-> ScanLookup(w, <<>>), ret |-> ReadyNone]

\* line 192: ScannerState::Finished => return Ok(Async::Ready(None))
ScanOnFinished(w) == [w |-> w, ret |-> ReadyNone]

RECURSIVE ScanPollLoop(_, _, _)
ScanPollLoop(w, pick, fuel) ==
    IF fuel = 0 THEN [w |-> w, ret |-> NotReady]
    ELSE IF w.scan.state = "Lookup" THEN
        LET res == w.scan.lookup.res IN
        IF res.tag = "Failed" THEN ScanOnError(w, res.err)
        ELSE IF res.tag = "Pending" THEN ScanOnNotReady(w)
        ELSE IF table[res.idx].tablet
             THEN ScanPollLoop(ScanOnTablet(w, res.idx), pick, fuel - 1)
             ELSE ScanPollLoop(ScanOnNonCoveredRange(w, table[res.idx].upper_bound),
                               pick, fuel - 1)
    ELSE IF w.scan.state = "Scan" THEN
        LET r == TabletScanPoll(w, pick) IN
        IF r.ret.tag = "Err" THEN ScanOnError(r.w, r.ret.err)
        ELSE IF r.ret.tag = "End"
             THEN ScanPollLoop(ScanOnEndOfTablet(r.w, table[w.scan.tablet].upper_bound),
                               pick, fuel - 1)
        ELSE IF r.ret.tag = "NotReady" THEN ScanOnNotReady(r.w)
             ELSE r
    ELSE ScanOnFinished(w)

(***************************************************************************)
(* ScanBuilder.                                                            *)
(***************************************************************************)
\* Schema::column_index
ColumnIndex(schema, name) ==
    IF \E i \in 1..Len(schema) : schema[i].name = name
    THEN Some((CHOOSE i \in 1..Len(schema) : schema[i].name = name) - 1)
    ELSE None

\* ScanBuilder::new: all the columns of the table
ScanBuilderNew(table_schema) ==
    [live |-> TRUE, err |-> "", projected_columns |-> [i \in 1..Len(table_schema) |-> i - 1]]

\* the builder after a setter returned Err: self was moved into the call
BuilderGone(e) == [live |-> FALSE, err |-> e, projected_columns |-> <<>>]

\* ScanBuilder::projected_columns
ProjectedColumns(b, column_indexes) ==
    IF \A i \in 1..Len(column_indexes) : CheckIndex(TableSchema, column_indexes[i])
    THEN [b EXCEPT !.projected_columns = column_indexes]
    ELSE BuilderGone("InvalidArgument")

RECURSIVE ResolveNames(_)
ResolveNames(names) ==
    IF names = <<>> THEN Some(<<>>)
    ELSE LET idx == ColumnIndex(TableSchema, names[1]) IN
         IF idx = None THEN None
         ELSE LET rest == ResolveNames(Tail(names)) IN
              IF rest = None THEN None ELSE Some(<<idx[1]>> \o rest[1])

\* a variant of projected_column_names that returns Ok on an unknown name
ProjectedColumnNamesLenient(b, column_names) ==
    LET idxs == ResolveNames(column_names) IN
    IF idxs = None THEN b
    ELSE [b EXCEPT !.projected_columns = idxs[1]]

\* ScanBuilder::projected_column_names
ProjectedColumnNames(b, column_names) ==
    LET idxs == ResolveNames(column_names) IN
    IF idxs = None THEN BuilderGone("InvalidArgument")
    ELSE [b EXCEPT !.projected_columns = idxs[1]]

\* lines 104-108: the projected schema
ProjectedSchema(projected_columns) ==
    [i \in 1..Len(projected_columns) |-> TableSchema[projected_columns[i] + 1]]

\* the inputs of the setters
IndexInputs == { <<>>, <<0>>, <<2>>, <<0, 2>> }
NameInputs == { <<"key", "val">>, <<"nope">>, <<"key", "nope">> }

Unbuilt ==
    [state |-> "Unbuilt", projected_schema |-> <<>>, lookup |-> NoLookup,
     tablet |-> 0, tablet_scan |-> NoTabletScan]

NoDec == [schema |-> <<>>, block |-> DefaultBlock, sidecars |-> <<>>,
          done |-> FALSE, out |-> BatchErr("")]

\* no iterator, no key
NoIter == [batch |-> NoBatch, st |-> "None", row_len |-> 0, rest |-> <<>>,
           front |-> <<>>, back |-> <<>>, fin |-> FALSE]
NoCodec == [st |-> "None"]
NoError == [e |-> [kind |-> "None"], called |-> {}, fatal |-> FALSE, retriable |-> FALSE]
NoMetaCache == [st |-> "None"]
NoReplicaRpc == [st |-> "None"]

(***************************************************************************)
(* The scan: initial state and the client's operations.                    *)
(***************************************************************************)
Init ==
    /\ table \in Tables
    /\ builder = ScanBuilderNew(TableSchema)
    /\ scan = Unbuilt
    /\ cache = {}
    /\ attempts = {}
    /\ scanners = {}
    /\ lookups = <<>>
    /\ calls = <<>>
    /\ yielded = <<>>
    /\ ended = FALSE
    /\ failure = ""
    /\ dec = NoDec
    /\ iter = NoIter
    /\ error = NoError
    /\ meta_cache = NoMetaCache
    /\ replica_rpc = NoReplicaRpc
    /\ codec = NoCodec

SetProjectedColumns ==
    /\ builder.live
    /\ \E idxs \in IndexInputs : builder' = ProjectedColumns(builder, idxs)
    /\ UNCHANGED << table, scan, cache, attempts, scanners,
                    lookups, calls, yielded, ended, failure, dec, iter, codec, error, meta_cache, replica_rpc >>

SetProjectedColumnNames ==
    /\ builder.live
    /\ \E names \in NameInputs : builder' = ProjectedColumnNames(builder, names)
    /\ UNCHANGED << table, scan, cache, attempts, scanners,
                    lookups, calls, yielded, ended, failure, dec, iter, codec, error, meta_cache, replica_rpc >>

\* ScanBuilder::build
Build ==
    /\ builder.live
    /\ scan.state = "Unbuilt"
    /\ builder' = [builder EXCEPT !.live = FALSE]
    /\ scan' = [state |-> "Lookup",
                projected_schema |-> ProjectedSchema(builder.projected_columns),
                lookup |-> TableLocationsEntry(<<>>),
                tablet |-> 0,
                tablet_scan |-> NoTabletScan]
    /\ lookups' = << <<>> >>
    /\ UNCHANGED << table, cache, attempts, scanners,
                    calls, yielded, ended, failure, dec, iter, codec, error, meta_cache, replica_rpc >>

\* what a yielded batch came from: the tablet and the response's place in the
\* sequence of its server-side scanner
Yield(b) ==
    [tablet |-> scan.tablet,
     emit |-> scan.tablet_scan.rpc.res.response[1].emit,
     rows |-> scan.tablet_scan.rpc.res.response[1].rows,
     batch |-> b]

\* Selection::Closest: the replicas the first attempt of a logical RPC may go
\* to, when this poll can start one
Picks ==
    IF \/ scan.state = "Lookup" /\ scan.lookup.res.tag = "Ready"
       \/ scan.state = "Scan" /\ scan.tablet_scan.rpc.tried = {}
    THEN Replicas ELSE {1}

\* Scan::poll, called by the consumer
ScanPoll ==
    /\ scan.state \notin { "Unbuilt", "Dropped" }
    /\ \E pick \in Picks :
         LET w0 == [scan |-> scan, lookups |-> lookups, calls |-> calls,
                    attempts |-> attempts]
             r == ScanPollLoop(w0, pick, LoopBound)
         IN /\ scan' = r.w.scan
            /\ lookups' = r.w.lookups
            /\ calls' = r.w.calls
            /\ attempts' = r.w.attempts
            /\ ended' = (ended \/ r.ret.tag = "End")
            /\ yielded' = IF r.ret.tag = "Batch" THEN Append(yielded, Yield(r.ret.batch))
                          ELSE yielded
            /\ failure' = IF r.ret.tag = "Err" THEN r.ret.err ELSE failure
    /\ UNCHANGED << table, builder, cache, scanners, dec, iter, codec, error, meta_cache, replica_rpc >>

(***************************************************************************)
(* The master and the meta cache's fetch.                                  *)
(***************************************************************************)
LookupIsPending == scan.state = "Lookup" /\ scan.lookup.res.tag = "Pending"

\* the get-table-locations response merges into the cache and resolves the lookup
MasterRespond ==
    /\ LookupIsPending
    /\ LET i == EntryIndex(scan.lookup.key) IN
       \E n \in 1..MaxLocations :
          /\ i + n - 1 <= Len(table)
          /\ cache' = cache \cup (i..(i + n - 1))
          /\ scan' = [scan EXCEPT !.lookup.res = LookupReady(i)]
    /\ UNCHANGED << table, builder, attempts, scanners,
                    lookups, calls, yielded, ended, failure, dec, iter, codec, error, meta_cache, replica_rpc >>

\* the lookup fails
MasterFail ==
    /\ LookupIsPending
    /\ \E e \in ErrorKinds : scan' = [scan EXCEPT !.lookup.res = LookupFailed(e)]
    /\ UNCHANGED << table, builder, cache, attempts, scanners,
                    lookups, calls, yielded, ended, failure, dec, iter, codec, error, meta_cache, replica_rpc >>

(***************************************************************************)
(* The tablet server of a replica.  The scanner an open-scan creates is    *)
(* named after the attempt that opened it.                                 *)
(***************************************************************************)
Min(a, b) == IF a < b THEN a ELSE b

\* the numbers of rows a server may put in a response when n are left
BatchSizes(n) == IF n = 0 THEN {0} ELSE 1..Min(n, MaxBatchRows)

\* a scan response carrying rows; emit and rows are not on the wire: they
\* name the response's place in its scanner's sequence and the rows it holds
ScanResponse(schema, rows, has_more, scanner_id, emit) ==
    [data |-> Some([num_rows |-> Len(rows), rows_sidecar |-> Some(0),
                    indirect_data_sidecar |-> None]),
     sidecars |-> << WireRows(schema, rows) >>,
     has_more_results |-> has_more,
     scanner_id |-> scanner_id,
     emit |-> emit,
     rows |-> rows]

\* a response without a row block
NoDataResponse(has_more, scanner_id, emit) ==
    [data |-> None, sidecars |-> <<>>, has_more_results |-> has_more,
     scanner_id |-> scanner_id, emit |-> emit, rows |-> <<>>]

ScannerIdOf(a) == << a.rpc, a.replica >>

\* the replica that created the scanner
ScannerOwner(id) == id[2]

Scanner(id) == CHOOSE s \in scanners : s.id = id

\* ReplicaRpc: the answer to attempt a arrives.  The first answer to the
\* pending logical RPC resolves it; an answer to an RPC that is resolved or
\* dropped is discarded
\* a variant of RpcAccepts that lets a later answer replace the result
RpcAcceptsResolved(a) ==
    /\ scan.state = "Scan"
    /\ scan.tablet_scan.rpc.id = a.rpc

RpcAccepts(a) ==
    /\ scan.state = "Scan"
    /\ scan.tablet_scan.rpc.id = a.rpc
    /\ scan.tablet_scan.rpc.res.tag = "Pending"

RpcReceive(a, res) ==
    IF RpcAccepts(a) THEN [scan EXCEPT !.tablet_scan.rpc.res = res] ELSE scan

\* a replica serves an open-scan request and its response arrives; the
\* response carries its row block when whole.  A scanner whose id reaches no
\* client (the response is discarded, or carries no usable id) is not kept:
\* nothing can name it
ServerOpenScanWith(wholes, ids) ==
    \E a \in attempts :
      /\ a.request.new_scan_request # None
      /\ LET pb == a.request.new_scan_request[1]
             req == [tablet_id |-> ParseTabletId(pb.tablet_id),
                     projected_columns |-> SchemaFromPb(pb.projected_columns)]
             rows == table[req.tablet_id].rows
         IN \E k \in BatchSizes(Len(rows)) : \E whole \in wholes : \E id \in ids :
              LET has_more == Len(rows) > k
                  sid == IF ~has_more \/ id = "Missing" THEN None
                         ELSE IF id = "Malformed" THEN Some(MalformedScannerId)
                         ELSE Some(ScannerIdOf(a))
                  response == IF whole
                              THEN ScanResponse(req.projected_columns, SubSeq(rows, 1, k),
                                                has_more, sid, 0)
                              ELSE NoDataResponse(has_more, sid, 0)
              IN /\ scanners' = IF has_more /\ id = "Id" /\ RpcAccepts(a)
                                THEN scanners \cup
                                       {[id |-> ScannerIdOf(a), replica |-> a.replica,
                                         tablet |-> req.tablet_id,
                                         schema |-> req.projected_columns,
                                         pos |-> k, call_seq_id |-> 0]}
                                ELSE scanners
                 /\ scan' = RpcReceive(a, RpcOk(a.replica, response))
      /\ attempts' = attempts \ {a}
      /\ UNCHANGED << table, builder, cache,
                      lookups, calls, yielded, ended, failure, dec, iter, codec, error, meta_cache, replica_rpc >>

ServerOpenScan == ServerOpenScanWith(BOOLEAN, {"Id"})

\* a replica serves a continue-scan request and its response arrives: the
\* scanner must be the replica's own and the call_seq_id the one after the
\* last it served; a scanner with no more results is closed
ServerContinueScan ==
    \E a \in attempts :
      /\ a.request.new_scan_request = None
      /\ LET sid == a.request.scanner_id[1]
             seq == a.request.call_seq_id[1]
         IN IF \/ \A s \in scanners : s.id # sid \/ s.replica # a.replica
               \/ seq # Scanner(sid).call_seq_id + 1
            THEN /\ scan' = RpcReceive(a, RpcFailed("Fatal"))
                 /\ UNCHANGED scanners
            ELSE LET s == Scanner(sid)
                     rows == table[s.tablet].rows
                 IN \E k \in BatchSizes(Len(rows) - s.pos) :
                      LET has_more == Len(rows) - s.pos > k
                          response == ScanResponse(s.schema,
                                                   SubSeq(rows, s.pos + 1, s.pos + k),
                                                   has_more, None, seq)
                      IN /\ scanners' = (scanners \ {s}) \cup
                                          (IF has_more
                                           THEN {[s EXCEPT !.pos = @ + k,
                                                           !.call_seq_id = seq]}
                                           ELSE {})
                         /\ scan' = RpcReceive(a, RpcOk(a.replica, response))
      /\ attempts' = attempts \ {a}
      /\ UNCHANGED << table, builder, cache,
                      lookups, calls, yielded, ended, failure, dec, iter, codec, error, meta_cache, replica_rpc >>

(***************************************************************************)
(* ReplicaRpc: the timers of the logical RPC the TabletScan holds.         *)
(***************************************************************************)
RpcIsPending ==
    /\ scan.state = "Scan"
    /\ scan.tablet_scan.rpc.tried # {}
    /\ scan.tablet_scan.rpc.res.tag = "Pending"

\* Speculation::Staggered: no response within the stagger interval, a parallel
\* attempt starts on another eligible replica
RpcSpeculate ==
    /\ RpcIsPending
    /\ scan.tablet_scan.rpc.speculation = "Staggered"
    /\ \E r \in Eligible(scan.tablet_scan.rpc) \ scan.tablet_scan.rpc.tried :
         LET rpc == scan.tablet_scan.rpc
             a == [rpc |-> rpc.id, replica |-> r, request |-> rpc.request[1]]
         IN /\ attempts' = attempts \cup {a}
            /\ scan' = [scan EXCEPT !.tablet_scan.rpc.tried = @ \cup {r}]
    /\ UNCHANGED << table, builder, cache, scanners,
                    lookups, calls, yielded, ended, failure, dec, iter, codec, error, meta_cache, replica_rpc >>

\* the logical RPC fails: a fatal error, the deadline, or a tablet-level error
RpcFail ==
    /\ RpcIsPending
    /\ \E e \in ErrorKinds : scan' = [scan EXCEPT !.tablet_scan.rpc.res = RpcFailed(e)]
    /\ UNCHANGED << table, builder, cache, attempts, scanners,
                    lookups, calls, yielded, ended, failure, dec, iter, codec, error, meta_cache, replica_rpc >>

Next ==
    \/ SetProjectedColumns
    \/ SetProjectedColumnNames
    \/ Build
    \/ ScanPoll
    \/ MasterRespond
    \/ MasterFail
    \/ ServerOpenScan
    \/ ServerContinueScan
    \/ RpcSpeculate
    \/ RpcFail

Spec == Init /\ [][Next]_vars

(***************************************************************************)
(* The scan when every lookup and every scan RPC succeeds, polled again    *)
(* and again.                                                              *)
(***************************************************************************)
ServerOpenScanOk == ServerOpenScanWith({TRUE}, {"Id"})

LiveNext ==
    \/ SetProjectedColumns
    \/ SetProjectedColumnNames
    \/ Build
    \/ ScanPoll
    \/ MasterRespond
    \/ ServerOpenScanOk
    \/ ServerContinueScan
    \/ RpcSpeculate

LiveSpec ==
    /\ Init
    /\ [][LiveNext]_vars
    /\ WF_vars(ScanPoll)
    /\ WF_vars(MasterRespond)
    /\ WF_vars(ServerOpenScanOk)
    /\ WF_vars(ServerContinueScan)

(***************************************************************************)
(* The decoder on its own: RowBatch::new applied to a response header and  *)
(* sidecars drawn from bounded sets.                                       *)
(***************************************************************************)
\* the sidecars of a response: at most MaxSidecars
MaxSidecars == 2
\* num_rows of a header: -1..MaxNumRows
MaxNumRows == 2

Zeros(n) == [i \in 1..n |-> 0]

\* sidecar buffers: empty, and the rows of 1 and 2 rows of each schema
DecSchemas == { <<>>, TableSchema, ProjectedSchema(<<0>>) }
DecBuffers == { Zeros(n * BatchRowLen(sch)) : n \in 0..MaxNumRows, sch \in DecSchemas }

RECURSIVE SeqsUpTo(_, _)
SeqsUpTo(S, n) ==
    IF n = 0 THEN { <<>> }
    ELSE SeqsUpTo(S, n - 1) \cup
         { Append(q, e) : q \in { p \in SeqsUpTo(S, n - 1) : Len(p) = n - 1 }, e \in S }

DecIndexes == { None } \cup { Some(i) : i \in -1..MaxSidecars }

\* a schema with one variable-length column, and the bytes of an indirect
\* data sidecar: at most MaxIndirectLen
StrSchema == << [name |-> "s", type |-> "String", nullable |-> FALSE] >>
MaxIndirectLen == 2
IndirectBytes(n) == [i \in 1..n |-> 96 + i]

\* the row of StrSchema the server writes for a value at (offset, len) of the
\* indirect data
VarLenRow(offset, len) == WriteLE64(offset) \o WriteLE64(len)

BatchInit ==
    /\ table = MakeTable({}, <<FALSE>>, <<0>>)
    /\ builder = BuilderGone("")
    /\ scan = Unbuilt
    /\ cache = {}
    /\ attempts = {}
    /\ scanners = {}
    /\ lookups = <<>>
    /\ calls = <<>>
    /\ yielded = <<>>
    /\ ended = FALSE
    /\ failure = ""
    /\ iter = NoIter
    /\ error = NoError
    /\ meta_cache = NoMetaCache
    /\ replica_rpc = NoReplicaRpc
    /\ codec = NoCodec
    /\ \/ \E sch \in DecSchemas, n \in -1..MaxNumRows, rs \in DecIndexes, is \in DecIndexes,
             sc \in SeqsUpTo(DecBuffers, MaxSidecars) :
         dec = [schema |-> sch,
                block |-> [num_rows |-> n, rows_sidecar |-> rs,
                           indirect_data_sidecar |-> is],
                sidecars |-> sc, done |-> FALSE, out |-> BatchErr("")]
       \/ \E off \in 0..(MaxIndirectLen + 1), len \in 0..(MaxIndirectLen + 1),
             n \in 0..MaxIndirectLen, is \in { None, Some(1) } :
            dec = [schema |-> StrSchema,
                   block |-> [num_rows |-> 1, rows_sidecar |-> Some(0),
                              indirect_data_sidecar |-> is],
                   sidecars |-> << VarLenRow(off, len), IndirectBytes(n) >>,
                   done |-> FALSE, out |-> BatchErr("")]

\* RowBatch::new
Decode ==
    /\ ~dec.done
    /\ dec' = [dec EXCEPT !.done = TRUE,
                          !.out = RowBatchNew(dec.schema, dec.block, dec.sidecars)]
    /\ UNCHANGED << scanVars, iter, codec, error, meta_cache, replica_rpc >>

BatchNext == Decode

BatchSpec == BatchInit /\ [][BatchNext]_vars
(***************************************************************************)
(* Properties of the scan.                                                 *)
(***************************************************************************)
\* the row ids the table holds, and their number R
TableRowIds == UNION { { table[i].rows[k] : k \in 1..Len(table[i].rows) } : i \in 1..Len(table) }
NumTableRows == Cardinality(TableRowIds)

\* what a consumer reads back: the val of the i-th row of a full-schema batch
BatchVals(batch) ==
    LET row_len == BatchRowLen(batch.projected_schema) IN
    [i \in 1..batch.len |-> ReadLE32(batch.data, (i - 1) * row_len + 4)]

RECURSIVE YieldedKeys(_)
YieldedKeys(ys) ==
    IF ys = <<>> THEN <<>> ELSE BatchKeys(ys[1].batch) \o YieldedKeys(Tail(ys))

RECURSIVE YieldedVals(_)
YieldedVals(ys) ==
    IF ys = <<>> THEN <<>> ELSE BatchVals(ys[1].batch) \o YieldedVals(Tail(ys))

RECURSIVE YieldedLen(_)
YieldedLen(ys) ==
    IF ys = <<>> THEN 0 ELSE ys[1].batch.len + YieldedLen(Tail(ys))

\* the stream ended and no poll returned an error
EndedClean == ended /\ failure = ""

\* C1: when the stream of a scan that projects every column ends without an
\* error, the batches it yielded hold exactly the R rows of the table, each
\* row once, with the values the table holds.
C1_ScanCompleteness ==
    (EndedClean /\ scan.projected_schema = TableSchema) =>
        LET ks == YieldedKeys(yielded)
            vs == YieldedVals(yielded)
        IN /\ Len(ks) = NumTableRows
           /\ \A r \in TableRowIds : \E i \in 1..Len(ks) : ks[i] = r /\ vs[i] = r

C1_Witness ==
    /\ EndedClean
    /\ scan.projected_schema = TableSchema
    /\ Len(table) = 2
    /\ \A i \in 1..Len(table) : table[i].tablet
    /\ NumTableRows >= 4
    /\ Len(yielded) >= 4

\* C2: consecutive batches are either consecutive responses of one tablet's
\* scanner, or the first response of a tablet whose key range lies after the
\* previous batch's tablet; a batch holds the rows of its response.
C2_BatchOrder ==
    /\ Len(yielded) >= 1 => yielded[1].emit = 0
    /\ \A i \in 1..(Len(yielded) - 1) :
         LET a == yielded[i]
             b == yielded[i + 1]
         IN \/ b.tablet = a.tablet /\ b.emit = a.emit + 1
            \/ /\ KeyLess(table[a.tablet].lower_bound, table[b.tablet].lower_bound)
               /\ b.emit = 0
    /\ \A i \in 1..Len(yielded) :
         /\ yielded[i].batch.len = Len(yielded[i].rows)
         /\ scan.projected_schema # <<>> => BatchKeys(yielded[i].batch) = yielded[i].rows

C2_Witness ==
    /\ Len(yielded) >= 3
    /\ yielded[1].tablet = yielded[2].tablet
    /\ yielded[1].tablet # yielded[Len(yielded)].tablet

\* C3: the keys passed to TableLocations::entry never decrease; each key after
\* the first is the non-empty upper bound of the entry the previous key lies
\* in; a scan that finished without an error last looked up an entry whose
\* upper bound is empty.
C3_CursorMonotone ==
    /\ \A i, j \in 1..Len(lookups) : i < j => KeyLE(lookups[i], lookups[j])
    /\ \A i \in 2..Len(lookups) :
         /\ lookups[i] # <<>>
         /\ lookups[i] = table[EntryIndex(lookups[i - 1])].upper_bound
    /\ (scan.state = "Finished" /\ failure = "") =>
         table[EntryIndex(lookups[Len(lookups)])].upper_bound = <<>>

C3_Witness ==
    /\ Len(lookups) = 2
    /\ scan.state = "Finished"
    /\ failure = ""
    /\ \E i \in 1..Len(table) : ~table[i].tablet

\* C4: a recoverable error (the tablet is gone, the leader moved) does not end
\* the scan: after it the Scan is in the Lookup state again.
C4_RecoverableErrorRelookup ==
    failure \in RecoverableErrors => scan.state = "Lookup"

C4_Witness ==
    /\ failure \in RecoverableErrors
    /\ scan.state = "Finished"
    /\ ended
    /\ Len(yielded) >= 1

\* what Scan::poll would return in this state
PollReturn ==
    ScanPollLoop([scan |-> scan, lookups |-> lookups, calls |-> calls,
                  attempts |-> attempts], 1, LoopBound).ret

NotRecoverable(e) == e # "" /\ e \notin RecoverableErrors

\* C5: a poll that meets an error that is not recoverable returns that error
\* and leaves the Scan Finished; from then on the Scan stays Finished, a poll
\* returns the end of the stream, and no batch, lookup, logical RPC or attempt
\* is added.
C5_ErrorEndsStream ==
    [][ /\ (NotRecoverable(PollReturn.err) /\ scan' # scan) =>
              /\ failure' = PollReturn.err
              /\ scan'.state = "Finished"
              /\ yielded' = yielded
        /\ NotRecoverable(failure) =>
              /\ scan.state = "Finished"
              /\ PollReturn.tag = "End"
              /\ scan' = scan
              /\ failure' = failure
              /\ yielded' = yielded
              /\ lookups' = lookups
              /\ calls' = calls
              /\ attempts' \subseteq attempts ]_vars

C5_Witness ==
    /\ NotRecoverable(failure)
    /\ ended
    /\ Len(yielded) >= 1
    /\ scanners # {}

\* C6: every continue-scan request in flight is addressed to the replica that
\* owns the scanner it names, i.e. the one that answered the open-scan; the
\* logical RPC of a continuing TabletScan targets that replica alone.
C6_ContinuePinned ==
    /\ \A a \in attempts :
         a.request.scanner_id # None =>
            \E s \in scanners : s.id = a.request.scanner_id[1] /\ s.replica = a.replica
    /\ (scan.state = "Scan" /\ scan.tablet_scan.st = "Continue") =>
         LET rpc == scan.tablet_scan.rpc IN
         /\ rpc.target = ScannerOwner(scan.tablet_scan.scanner_id)
         /\ rpc.tried \subseteq {rpc.target}

C6_Witness ==
    \E a \in attempts :
       /\ a.request.scanner_id # None
       /\ a.request.call_seq_id = Some(2)
       /\ a.replica = 2

\* C7: the n-th continue-scan call on a scanner carries call_seq_id n, and the
\* requests in flight carry the call_seq_id of their call.
C7_CallSeqId ==
    /\ \A i \in 1..Len(calls) :
         calls[i].kind = "continue" =>
            calls[i].call_seq_id =
               Cardinality({ j \in 1..i : /\ calls[j].kind = "continue"
                                          /\ calls[j].open = calls[i].open })
    /\ \A a \in attempts :
         a.request.scanner_id # None =>
            /\ calls[a.rpc].kind = "continue"
            /\ a.request.call_seq_id = Some(calls[a.rpc].call_seq_id)

C7_Witness ==
    /\ \E a \in attempts : a.request.call_seq_id = Some(2)
    /\ \E i \in 1..Len(calls) : calls[i].kind = "continue" /\ calls[i].call_seq_id = 1

\* C8: when every lookup and every scan RPC eventually succeeds and the
\* consumer keeps polling, a built Scan reaches Finished and a poll returns the
\* end of the stream.
C8_EventuallyFinished ==
    (scan.state # "Unbuilt") ~> (scan.state = "Finished" /\ ended)

C8_Witness ==
    /\ scan.state = "Finished"
    /\ EndedClean
    /\ Len(lookups) = 2
    /\ Len(yielded) >= 3

\* C9: a scan with an empty projection yields batches of row length 0 that
\* hold no bytes, each with the row count of its response; the decoder accepts
\* every response that carries a row block; when the stream ends without an
\* error the row counts add up to R.
C9_EmptyProjection ==
    (scan.state # "Unbuilt" /\ scan.projected_schema = <<>>) =>
        /\ \A i \in 1..Len(yielded) :
             /\ BatchRowLen(yielded[i].batch.projected_schema) = 0
             /\ yielded[i].batch.data = <<>>
             /\ yielded[i].batch.len = Len(yielded[i].rows)
        /\ ( /\ scan.state = "Scan"
             /\ scan.tablet_scan.rpc.res.tag = "Ok"
             /\ scan.tablet_scan.rpc.res.response[1].data # None ) =>
               LET response == scan.tablet_scan.rpc.res.response[1] IN
               RowBatchNew(scan.projected_schema, response.data[1], response.sidecars).ok
        /\ EndedClean => YieldedLen(yielded) = NumTableRows

C9_Witness ==
    /\ scan.projected_schema = <<>>
    /\ scan.state = "Finished"
    /\ EndedClean
    /\ NumTableRows >= 4

(***************************************************************************)
(* Properties of the decoder.                                              *)
(***************************************************************************)
IndexOutOfRange(idx, n) == idx[1] < 0 \/ idx[1] >= n

\* the header names no usable rows sidecar
RowsSidecarBad ==
    \/ dec.block.rows_sidecar = None
    \/ IndexOutOfRange(dec.block.rows_sidecar, Len(dec.sidecars))

\* the header names an indirect data sidecar that is not there
IndirectSidecarBad ==
    /\ dec.block.indirect_data_sidecar # None
    /\ IndexOutOfRange(dec.block.indirect_data_sidecar, Len(dec.sidecars))

\* C10: RowBatch::new returns a Serialization error when rows_sidecar is
\* missing, negative or past the sidecars, and when indirect_data_sidecar is
\* present and negative or past the sidecars; an absent indirect_data_sidecar
\* is no error and gives an empty indirect buffer.
C10_SidecarIndexes ==
    dec.done =>
        /\ (RowsSidecarBad \/ IndirectSidecarBad) =>
              /\ ~dec.out.ok
              /\ dec.out.err = "Serialization"
              /\ dec.out.batch = NoBatch
        /\ (dec.out.ok /\ dec.block.indirect_data_sidecar = None) =>
              dec.out.batch.indirect_data = <<>>
        /\ ( /\ ~RowsSidecarBad
             /\ dec.block.indirect_data_sidecar = None
             /\ dec.block.num_rows >= 0
             /\ Len(dec.sidecars[dec.block.rows_sidecar[1] + 1])
                  = dec.block.num_rows * BatchRowLen(dec.schema) ) => dec.out.ok

C10_Witness ==
    /\ dec.done
    /\ ~RowsSidecarBad
    /\ IndirectSidecarBad
    /\ dec.block.indirect_data_sidecar[1] >= Len(dec.sidecars)
    /\ Len(dec.sidecars[dec.block.rows_sidecar[1] + 1])
         = dec.block.num_rows * BatchRowLen(dec.schema)
    /\ dec.block.num_rows > 0
    /\ ~dec.out.ok

\* the row length of the decoded header's schema and the rows sidecar it names
DecRowLen == BatchRowLen(dec.schema)
DecRowsSidecar == dec.sidecars[dec.block.rows_sidecar[1] + 1]

\* num_rows as usize times row_len is the length of the rows sidecar: a
\* negative num_rows is a usize above 2^63, whose product with a positive
\* row_len is no buffer length
DecLengthMatches ==
    \/ dec.block.num_rows >= 0 /\ dec.block.num_rows * DecRowLen = Len(DecRowsSidecar)
    \/ dec.block.num_rows < 0 /\ DecRowLen = 0 /\ Len(DecRowsSidecar) = 0

\* C11: a batch RowBatch::new returns has data.len() = num_rows * row_len,
\* row_len being the fixed row length plus the null bitmap when a column is
\* nullable; with usable sidecar indexes, a header whose product differs from
\* the rows sidecar length or overflows gives a Serialization error and no batch.
C11_DataLength ==
    dec.done =>
        /\ dec.out.ok =>
              /\ Len(dec.out.batch.data)
                   = dec.out.batch.len * BatchRowLen(dec.out.batch.projected_schema)
              /\ dec.out.batch.len = dec.block.num_rows
              /\ VarLenColumnOffsets(dec.schema) = {} => dec.out.batch.data = DecRowsSidecar
        /\ (~RowsSidecarBad /\ ~IndirectSidecarBad) =>
              /\ dec.out.ok <=> DecLengthMatches
              /\ ~dec.out.ok => dec.out.err = "Serialization" /\ dec.out.batch = NoBatch

C11_Witness ==
    /\ dec.done
    /\ dec.out.ok
    /\ dec.out.batch.len = 2
    /\ HasNullableColumns(dec.schema)
    /\ Len(dec.out.batch.data) = 2 * (SchemaRowLen(dec.schema) + BitmapLen(dec.schema))

\* Row::get of a variable-length value: the slot holds an address and a
\* length, and the value is the len bytes at the address
VarLenPtr(batch, r, o) == ReadLE64(batch.data, (r - 1) * BatchRowLen(batch.projected_schema) + o)
VarLenLen(batch, r, o) == ReadLE64(batch.data, (r - 1) * BatchRowLen(batch.projected_schema) + o + 8)

\* the bytes [ptr, ptr + len) lie in the batch's indirect data buffer
VarLenInBuffer(batch, r, o) ==
    /\ IndirectBase <= VarLenPtr(batch, r, o)
    /\ VarLenPtr(batch, r, o) + VarLenLen(batch, r, o)
         <= IndirectBase + Len(batch.indirect_data)

\* C12: in every batch RowBatch::new returns, every variable-length value
\* refers to bytes that lie inside the batch's indirect data buffer.
C12_VarLenInBounds ==
    (dec.done /\ dec.out.ok) =>
        \A r \in 1..dec.out.batch.len :
            \A o \in VarLenColumnOffsets(dec.out.batch.projected_schema) :
                VarLenInBuffer(dec.out.batch, r, o)

C12_Witness ==
    /\ dec.done
    /\ dec.out.ok
    /\ dec.schema = StrSchema
    /\ Len(dec.out.batch.indirect_data) = 2
    /\ VarLenPtr(dec.out.batch, 1, 0) = IndirectBase + 1
    /\ VarLenLen(dec.out.batch, 1, 0) = 3

(***************************************************************************)
(* The iterator of a RowBatch on its own: into_iter, next, next_back and   *)
(* len on batches RowBatch::new returned.                                  *)
(***************************************************************************)
\* the rows of the batches iterated: 0..MaxIterRows
MaxIterRows == 5

\* std::slice::Chunks over the bytes still to be yielded
ChunksLen(rest, n) == (Len(rest) + n - 1) \div n
ChunksNextSize(rest, n) == Min(Len(rest), n)
ChunksNextBackSize(rest, n) == IF Len(rest) % n = 0 THEN n ELSE Len(rest) % n

\* the batch RowBatch::new makes of a server's response holding rows 1..n
IterBatch(schema, n) ==
    LET response == ScanResponse(schema, [i \in 1..n |-> i], FALSE, None, 0)
    IN RowBatchNew(schema, response.data[1], response.sidecars).batch

IterBatches ==
    { IterBatch(sch, n) : sch \in DecSchemas, n \in 0..MaxIterRows }

IterInit ==
    /\ table = MakeTable({}, <<FALSE>>, <<0>>)
    /\ builder = BuilderGone("")
    /\ scan = Unbuilt
    /\ cache = {}
    /\ attempts = {}
    /\ scanners = {}
    /\ lookups = <<>>
    /\ calls = <<>>
    /\ yielded = <<>>
    /\ ended = FALSE
    /\ failure = ""
    /\ dec = NoDec
    /\ codec = NoCodec
    /\ error = NoError
    /\ meta_cache = NoMetaCache
    /\ replica_rpc = NoReplicaRpc
    /\ \E b \in IterBatches : iter = [NoIter EXCEPT !.batch = b]

\* lines 282-291: into_iter; slice::chunks panics on a chunk size of 0
IntoIter ==
    /\ iter.st = "None"
    /\ LET row_len == BatchRowLen(iter.batch.projected_schema) IN
       iter' = IF row_len = 0
               THEN [iter EXCEPT !.st = "Panicked"]
               ELSE [iter EXCEPT !.st = "Iter", !.row_len = row_len,
                                 !.rest = iter.batch.data]
    /\ UNCHANGED << scanVars, dec, codec, error, meta_cache, replica_rpc >>

\* lines 301-303: next
IterNext ==
    /\ iter.st = "Iter"
    /\ iter' = IF iter.rest = <<>> THEN [iter EXCEPT !.fin = TRUE]
               ELSE LET k == ChunksNextSize(iter.rest, iter.row_len) IN
                    [iter EXCEPT !.front = Append(@, SubSeq(iter.rest, 1, k)),
                                 !.rest = SubSeq(iter.rest, k + 1, Len(iter.rest))]
    /\ UNCHANGED << scanVars, dec, codec, error, meta_cache, replica_rpc >>

\* lines 313-315: next_back
IterNextBack ==
    /\ iter.st = "Iter"
    /\ iter' = IF iter.rest = <<>> THEN [iter EXCEPT !.fin = TRUE]
               ELSE LET k == ChunksNextBackSize(iter.rest, iter.row_len)
                        n == Len(iter.rest)
                    IN [iter EXCEPT !.back = Append(@, SubSeq(iter.rest, n - k + 1, n)),
                                    !.rest = SubSeq(iter.rest, 1, n - k)]
    /\ UNCHANGED << scanVars, dec, codec, error, meta_cache, replica_rpc >>

IterStep ==
    \/ IntoIter
    \/ IterNext
    \/ IterNextBack

IterSpec == IterInit /\ [][IterStep]_vars

\* the i-th row of a batch on the wire
BatchRow(batch, i) ==
    LET row_len == BatchRowLen(batch.projected_schema) IN
    SubSeq(batch.data, (i - 1) * row_len + 1, i * row_len)

\* C13: iterating a batch of any projected schema, the empty one included,
\* yields its rows in wire order from the front and in reverse from the back,
\* never more than len rows and none twice; the reported length is the number
\* of rows still to come; once the end was returned nothing is left.
C13_IteratorOrder ==
    iter.st # "None" =>
        /\ iter.st = "Iter"
        /\ \A i \in 1..Len(iter.front) : iter.front[i] = BatchRow(iter.batch, i)
        /\ \A j \in 1..Len(iter.back) :
             iter.back[j] = BatchRow(iter.batch, iter.batch.len - j + 1)
        /\ Len(iter.front) + Len(iter.back) <= iter.batch.len
        /\ ChunksLen(iter.rest, iter.row_len)
             = iter.batch.len - Len(iter.front) - Len(iter.back)
        /\ iter.fin => /\ Len(iter.front) + Len(iter.back) = iter.batch.len
                       /\ iter.rest = <<>>

C13_Witness ==
    /\ iter.st = "Panicked"
    /\ iter.batch.projected_schema = <<>>
    /\ iter.batch.len = 3

\* the same property for the batches whose row length is positive
C13_NonEmptyRows ==
    BatchRowLen(iter.batch.projected_schema) > 0 => C13_IteratorOrder

(***************************************************************************)
(* Properties of the ScanBuilder.                                          *)
(***************************************************************************)
ColumnNames == { TableSchema[i].name : i \in 1..Len(TableSchema) }

\* a setter of the live builder acts in this step
SetterStep == builder.live /\ builder' # builder /\ scan' = scan

\* C14: a projection setter returns Ok only when every requested column is a
\* column of the table schema, and then the builder projects the requested
\* columns in the requested order; an unknown name gives InvalidArgument and
\* an invalid index an error; a builder never given a projection builds a
\* scan that projects every column of the table schema in schema order.
C14_ProjectionSetters ==
    [][ /\ SetterStep =>
              \/ /\ builder'.live
                 /\ \A i \in 1..Len(builder'.projected_columns) :
                      builder'.projected_columns[i] \in 0..(Len(TableSchema) - 1)
              \/ ~builder'.live /\ builder'.err = "InvalidArgument"
        /\ builder.live =>
              /\ \A names \in NameInputs :
                   LET b == ProjectedColumnNames(builder, names) IN
                   IF \A i \in 1..Len(names) : names[i] \in ColumnNames
                   THEN /\ b.live
                        /\ Len(b.projected_columns) = Len(names)
                        /\ \A i \in 1..Len(names) :
                             TableSchema[b.projected_columns[i] + 1].name = names[i]
                   ELSE ~b.live /\ b.err = "InvalidArgument"
              /\ \A idxs \in IndexInputs :
                   LET b == ProjectedColumns(builder, idxs) IN
                   IF \A i \in 1..Len(idxs) : idxs[i] \in 0..(Len(TableSchema) - 1)
                   THEN b.live /\ b.projected_columns = idxs
                   ELSE ~b.live /\ b.err # ""
        /\ (builder = ScanBuilderNew(TableSchema) /\ scan.state = "Unbuilt"
              /\ scan'.state # "Unbuilt") => scan'.projected_schema = TableSchema
      ]_vars

C14_Witness ==
    /\ ~builder.live
    /\ builder.err = "InvalidArgument"
    /\ scan.state = "Unbuilt"

(***************************************************************************)
(* The primary-key codec (key.rs).  A key is a sequence of bytes; a row is *)
(* the sequence of the values of its primary-key columns, and a key schema *)
(* the sequence of their data types.                                       *)
(***************************************************************************)
\* the longest String/Binary value of a row given to the encoder
MaxStrLen == 2
\* the longest byte string given to the decoder
MaxKeyLen == 4

RECURSIVE BEBytes(_, _)
\* the w big-endian bytes of the unsigned value u
BEBytes(u, w) ==
    IF w = 0 THEN <<>> ELSE Append(BEBytes(u \div 256, w - 1), u % 256)

Complement(bs) == [i \in 1..Len(bs) |-> 255 - bs[i]]

\* WriteBytesExt::write_i16/i32/i64::<BigEndian>: two's complement, big-endian
WriteIBE(v, w) ==
    IF v >= 0 THEN BEBytes(v, w) ELSE Complement(BEBytes(-v - 1, w))

RECURSIVE ReadUBE(_)
ReadUBE(bs) ==
    IF bs = <<>> THEN 0
    ELSE 256 * ReadUBE(SubSeq(bs, 1, Len(bs) - 1)) + bs[Len(bs)]

\* the value of at most four big-endian bytes in two's complement
ReadI32BE(b) ==
    IF b[1] >= 128 THEN -ReadUBE(Complement(b)) - 1 ELSE ReadUBE(b)

\* BigEndian::read_i16/i32/i64 of the first w bytes (the caller has them); an
\* i64 outside the range of an i32 is held as its eight bytes
ReadIBE(bs, w) ==
    LET b == SubSeq(bs, 1, w) IN
    IF w <= 4 THEN ReadI32BE(b)
    ELSE LET hi == SubSeq(b, 1, w - 4)
             lo == SubSeq(b, w - 3, w) IN
         IF (\A i \in 1..Len(hi) : hi[i] = 0) /\ lo[1] < 128 THEN ReadI32BE(lo)
         ELSE IF (\A i \in 1..Len(hi) : hi[i] = 255) /\ lo[1] >= 128 THEN ReadI32BE(lo)
         ELSE << "i64", b >>

\* util::time_to_us and util::us_to_time; a SystemTime is held as the
\* nanoseconds since the epoch
TimeToUs(t) == t \div 1000
UsToTime(us) == us * 1000

\* the outcomes of Row::get::<i32> on an Int64 column: an error (that the
\* unwrap turns into a panic) or a 32-bit value
GetI32Outcomes == { "Err", "Ok" }

EncOk(buf) == [tag |-> "Ok", bytes |-> buf]
EncPanic == [tag |-> "Panic", bytes |-> <<>>]

RECURSIVE SplitOnZero(_, _)
\* slice::split(|&x| x == 0): the pieces between the zero bytes, cur being
\* the piece under construction
SplitOnZero(value, cur) ==
    IF value = <<>> THEN << cur >>
    ELSE IF Head(value) = 0 THEN << cur >> \o SplitOnZero(Tail(value), <<>>)
    ELSE SplitOnZero(Tail(value), Append(cur, Head(value)))

RECURSIVE ExtendSplits(_, _)
ExtendSplits(splits, buf) ==
    IF splits = <<>> THEN buf
    ELSE ExtendSplits(Tail(splits), buf \o Head(splits) \o << 0, 1 >>)

\* encode_binary
EncodeBinaryNoTerminator(value, is_last, buf) ==
    IF is_last THEN buf \o value
    ELSE ExtendSplits(SplitOnZero(value, <<>>), buf)

EncodeBinary(value, is_last, buf) ==
    IF is_last THEN buf \o value
    ELSE LET b == ExtendSplits(SplitOnZero(value, <<>>), buf) IN
         [b EXCEPT ![Len(b)] = 0]

\* encode_column; g is the outcome of Row::get::<i32> on an Int64 column
EncodeColumn(type, v, is_last, buf, g) ==
    CASE type = "Bool" -> EncOk(Append(buf, IF v THEN 1 ELSE 0))
      [] type = "Int8" -> EncOk(Append(buf, IF v < 0 THEN v + 256 ELSE v))
      [] type = "Int16" -> EncOk(buf \o WriteIBE(v, 2))
      [] type = "Int32" -> EncOk(buf \o WriteIBE(v, 4))
      [] type = "Int64" -> IF g = "Err" THEN EncPanic ELSE EncOk(buf \o WriteIBE(v, 4))
      [] type = "Timestamp" -> EncOk(buf \o WriteIBE(TimeToUs(UsToTime(v)), 8))
      [] type = "Float" -> EncOk(buf \o SubSeq(v, 1, 4))
      [] type = "Double" -> EncOk(buf \o SubSeq(v, 1, 8))
      [] type \in {"Binary", "String"} -> EncOk(EncodeBinary(v, is_last, buf))

RECURSIVE EncodeColumns(_, _, _, _, _)
EncodeColumns(schema, row, idx, buf, g) ==
    IF idx > Len(schema) THEN EncOk(buf)
    ELSE LET r == EncodeColumn(schema[idx], row[idx], idx = Len(schema), buf, g) IN
         IF r.tag # "Ok" THEN r
         ELSE EncodeColumns(schema, row, idx + 1, r.bytes, g)

\* encode_primary_key
EncodePrimaryKey(schema, row, g) == EncodeColumns(schema, row, 1, <<>>, g)

DecOk(value, rest) == [tag |-> "Ok", kind |-> "", value |-> value, rest |-> rest]
DecErr(kind) == [tag |-> "Err", kind |-> kind, value |-> <<>>, rest |-> <<>>]
DecPanic == [tag |-> "Panic", kind |-> "", value |-> <<>>, rest |-> <<>>]

\* the position of the first zero byte of key, 0 when it has none
FirstZero(key) ==
    IF \E i \in 1..Len(key) : key[i] = 0
    THEN CHOOSE i \in 1..Len(key) : key[i] = 0 /\ \A j \in 1..(i - 1) : key[j] # 0
    ELSE 0

RECURSIVE DecodeBinaryLoop(_, _)
\* the loop of decode_binary for a column that is not the last
DecodeBinaryLoop(key, ret) ==
    LET idx == FirstZero(key) IN
    IF idx = 0 THEN DecErr("Serialization")
    ELSE IF idx + 1 > Len(key) THEN DecErr("Serialization")
    ELSE LET b == key[idx + 1] IN
         CASE b = 0 -> DecOk(ret \o SubSeq(key, 1, idx - 1), SubSeq(key, idx + 2, Len(key)))
           [] b = 1 -> DecodeBinaryLoop(SubSeq(key, idx + 2, Len(key)),
                                        ret \o SubSeq(key, 1, idx))
           [] OTHER -> DecErr("Serialization")

\* a variant of decode_binary that takes a field without a valid terminator
\* as the whole rest of the key
DecodeBinaryUnterminated(key, is_last) ==
    IF is_last THEN DecOk(key, <<>>)
    ELSE LET r == DecodeBinaryLoop(key, <<>>) IN
         IF r.tag = "Ok" THEN r ELSE DecOk(key, <<>>)

\* decode_binary
DecodeBinary(key, is_last) ==
    IF is_last THEN DecOk(key, <<>>)
    ELSE DecodeBinaryLoop(key, <<>>)

\* the number of bytes decode_column reads for a fixed-width column
KeyWidth(type) ==
    CASE type \in {"Bool", "Int8"} -> 1
      [] type = "Int16" -> 2
      [] type \in {"Int32", "Float"} -> 4
      [] type \in {"Int64", "Timestamp", "Double"} -> 8
      [] OTHER -> 0

\* decode_column: indexing or reading past the end of the key panics
DecodeColumn(type, is_last, key) ==
    CASE type \in {"Binary", "String"} -> DecodeBinary(key, is_last)
      [] OTHER ->
         LET w == KeyWidth(type)
             rest == SubSeq(key, w + 1, Len(key)) IN
         IF Len(key) < w THEN DecPanic
         ELSE CASE type = "Bool" -> DecOk(key[1] # 0, rest)
                [] type = "Int8" -> DecOk(IF key[1] >= 128 THEN key[1] - 256 ELSE key[1], rest)
                [] type \in {"Int16", "Int32", "Int64"} -> DecOk(ReadIBE(key, w), rest)
                [] type = "Timestamp" -> DecOk(TimeToUs(UsToTime(ReadIBE(key, w))), rest)
                [] type \in {"Float", "Double"} -> DecOk(SubSeq(key, 1, w), rest)

RowOk(row) == [tag |-> "Ok", kind |-> "", row |-> row]
RowErr(kind) == [tag |-> "Err", kind |-> kind, row |-> <<>>]
RowPanic == [tag |-> "Panic", kind |-> "", row |-> <<>>]

\* a variant of the check after the last column that ignores remaining bytes
CheckRemainingLenient(key, row) == RowOk(row)

\* decode_primary_key: the check after the last column
CheckRemaining(key, row) ==
    IF key # <<>> THEN RowErr("Serialization") ELSE RowOk(row)

RECURSIVE DecodeColumns(_, _, _, _)
DecodeColumns(schema, idx, key, row) ==
    IF idx > Len(schema)
    THEN CheckRemaining(key, row)
    ELSE LET r == DecodeColumn(schema[idx], idx = Len(schema), key) IN
         CASE r.tag = "Ok" -> DecodeColumns(schema, idx + 1, r.rest, Append(row, r.value))
           [] r.tag = "Err" -> RowErr(r.kind)
           [] OTHER -> RowPanic

\* decode_primary_key
DecodePrimaryKey(schema, key) == DecodeColumns(schema, 1, key, <<>>)

(***************************************************************************)
(* The inputs of the codec: rows of every column type for the encoder, and *)
(* arbitrary byte strings for the decoder.                                 *)
(***************************************************************************)
\* f32 and f64 values are held as their IEEE-754 bits, most significant byte
\* first: -1.0, -0.0, 0.0, 1.0
F32Values == { <<191, 128, 0, 0>>, <<128, 0, 0, 0>>, <<0, 0, 0, 0>>, <<63, 128, 0, 0>> }
F64Values == { <<191, 240, 0, 0, 0, 0, 0, 0>>, <<128, 0, 0, 0, 0, 0, 0, 0>>,
               <<0, 0, 0, 0, 0, 0, 0, 0>>, <<63, 240, 0, 0, 0, 0, 0, 0>> }

\* the bytes of String and Binary values: 0x00, 0x01, "a", "b"
StrAlphabet == { 0, 1, 97, 98 }
\* the bytes of the keys given to the decoder
KeyAlphabet == { 0, 1, 2, 97 }

ColumnValues(type) ==
    CASE type = "Bool" -> { FALSE, TRUE }
      [] type = "Int8" -> { -128, -1, 0, 1, 127 }
      [] type = "Int16" -> { -256, -1, 0, 1, 256 }
      [] type = "Int32" -> { -65536, -1, 0, 1, 65536 }
      [] type = "Int64" -> { -65536, -1, 0, 1, 65536 }
      [] type = "Timestamp" -> { 0, 1, 1000 }
      [] type = "Float" -> F32Values
      [] type = "Double" -> F64Values
      [] type \in {"Binary", "String"} -> SeqsUpTo(StrAlphabet, MaxStrLen)

KeySchemas ==
    { <<"Bool">>, <<"Int8">>, <<"Int16">>, <<"Int32">>, <<"Int64">>, <<"Timestamp">>,
      <<"Float">>, <<"Double">>, <<"Binary">>, <<"String">>,
      <<"String", "Int32">>, <<"Int32", "String">>, <<"Binary", "Binary">>,
      <<"Int64", "Int32">>, <<"Int16", "Int8">>, <<"String", "Int32", "String">> }

\* the rows of a key schema, from column i on
RECURSIVE KeyRowsFrom(_, _)
KeyRowsFrom(schema, i) ==
    IF i > Len(schema) THEN { <<>> }
    ELSE { << v >> \o r : v \in ColumnValues(schema[i]), r \in KeyRowsFrom(schema, i + 1) }

KeyRows(schema) == KeyRowsFrom(schema, 1)

KeyInputs == SeqsUpTo(KeyAlphabet, MaxKeyLen)

NoRowResult == [tag |-> "None", kind |-> "", row |-> <<>>]

CodecInit ==
    /\ table = MakeTable({}, <<FALSE>>, <<0>>)
    /\ builder = BuilderGone("")
    /\ scan = Unbuilt
    /\ cache = {}
    /\ attempts = {}
    /\ scanners = {}
    /\ lookups = <<>>
    /\ calls = <<>>
    /\ yielded = <<>>
    /\ ended = FALSE
    /\ failure = ""
    /\ dec = NoDec
    /\ iter = NoIter
    /\ error = NoError
    /\ meta_cache = NoMetaCache
    /\ replica_rpc = NoReplicaRpc
    /\ \/ \E sch \in KeySchemas : \E r \in KeyRows(sch) :
            codec = [st |-> "Row", from |-> "row", schema |-> sch, row |-> r,
                     key |-> <<>>, out |-> NoRowResult]
       \/ \E sch \in KeySchemas, k \in KeyInputs :
            codec = [st |-> "Key", from |-> "bytes", schema |-> sch, row |-> <<>>,
                     key |-> k, out |-> NoRowResult]

\* encode_primary_key
EncodeKey ==
    /\ codec.st = "Row"
    /\ \E g \in GetI32Outcomes :
         LET e == EncodePrimaryKey(codec.schema, codec.row, g) IN
         codec' = IF e.tag = "Ok"
                  THEN [codec EXCEPT !.st = "Key", !.key = e.bytes]
                  ELSE [codec EXCEPT !.st = "EncodePanicked"]
    /\ UNCHANGED << scanVars, dec, iter, error, meta_cache, replica_rpc >>

\* decode_primary_key
DecodeKey ==
    /\ codec.st = "Key"
    /\ codec' = [codec EXCEPT !.st = "Decoded",
                              !.out = DecodePrimaryKey(codec.schema, codec.key)]
    /\ UNCHANGED << scanVars, dec, iter, error, meta_cache, replica_rpc >>

CodecNext == EncodeKey \/ DecodeKey

CodecSpec == CodecInit /\ [][CodecNext]_vars

(***************************************************************************)
(* Properties of the primary-key codec.                                    *)
(***************************************************************************)
RECURSIVE MemCmp(_, _)
\* the sign of the byte-lexicographic comparison of two byte strings
MemCmp(a, b) ==
    IF a = <<>> THEN (IF b = <<>> THEN 0 ELSE -1)
    ELSE IF b = <<>> THEN 1
    ELSE IF Head(a) < Head(b) THEN -1
    ELSE IF Head(a) > Head(b) THEN 1
    ELSE MemCmp(Tail(a), Tail(b))

\* the sign of the comparison of two values of a column type; floating point
\* values, held as their bits, in the order -1.0 < -0.0 < 0.0 < 1.0
ValueCmp(type, v1, v2) ==
    CASE type = "Bool" -> IF v1 = v2 THEN 0 ELSE IF v2 THEN -1 ELSE 1
      [] type \in {"Int8", "Int16", "Int32", "Int64", "Timestamp"} ->
           IF v1 < v2 THEN -1 ELSE IF v1 > v2 THEN 1 ELSE 0
      [] type \in {"Float", "Double"} ->
           IF v1[1] >= 128 /\ v2[1] < 128 THEN -1
           ELSE IF v1[1] < 128 /\ v2[1] >= 128 THEN 1
           ELSE IF v1[1] >= 128 THEN MemCmp(v2, v1)
           ELSE MemCmp(v1, v2)
      [] OTHER -> MemCmp(v1, v2)

RECURSIVE TupleCmp(_, _, _, _)
\* the sign of the lexicographic comparison of two rows, from column i on
TupleCmp(schema, r1, r2, i) ==
    IF i > Len(schema) THEN 0
    ELSE LET c == ValueCmp(schema[i], r1[i], r2[i]) IN
         IF c # 0 THEN c ELSE TupleCmp(schema, r1, r2, i + 1)

\* the encoder has returned or panicked on the row of this state
Encoded == codec.from = "row" /\ codec.st \in {"Key", "EncodePanicked"}
\* the row of this state has gone through the encoder and, unless the
\* encoder panicked, the decoder
RoundTripDone == codec.from = "row" /\ codec.st \in {"Decoded", "EncodePanicked"}
\* the decoder has returned or panicked on a byte string given to it
KeyDecoded == codec.from = "bytes" /\ codec.st = "Decoded"

HasInt64(schema) == \E i \in 1..Len(schema) : schema[i] = "Int64"

\* C15: for every schema and every row, decoding the encoded primary key
\* succeeds and returns a row equal to the encoded one, for every column type
\* (Int64 included) and for strings with 0x00 bytes in every position.
C15_RoundTrip ==
    RoundTripDone =>
        /\ codec.st = "Decoded"
        /\ codec.out.tag = "Ok"
        /\ codec.out.row = codec.row

\* a row with an Int64 column has been encoded and the decoder has panicked
C15_Witness ==
    /\ codec.from = "row"
    /\ codec.schema = <<"Int64">>
    /\ codec.st = "Decoded"
    /\ codec.out.tag = "Panic"

\* the round trip holds for the schemas without an Int64 column
C15_RoundTripOtherTypes ==
    (RoundTripDone /\ ~HasInt64(codec.schema)) =>
        /\ codec.st = "Decoded"
        /\ codec.out.tag = "Ok"
        /\ codec.out.row = codec.row

\* C16: the byte-lexicographic comparison of the encodings of two rows of a
\* schema has the sign of the lexicographic comparison of the rows.
C16_CodecOrder ==
    (codec.from = "row" /\ codec.st = "Key") =>
        \A r2 \in KeyRows(codec.schema), g \in GetI32Outcomes :
            LET e2 == EncodePrimaryKey(codec.schema, r2, g) IN
            e2.tag = "Ok" =>
                MemCmp(codec.key, e2.bytes) = TupleCmp(codec.schema, codec.row, r2, 1)

\* the Int32 key -1 has been encoded
C16_Witness ==
    /\ codec.from = "row"
    /\ codec.st = "Key"
    /\ codec.schema = <<"Int32">>
    /\ codec.row = << -1 >>
    /\ MemCmp(codec.key, EncodePrimaryKey(<<"Int32">>, << 0 >>, "Ok").bytes) = 1

\* the order holds for the keys of strings and booleans
C16_OrderOfStrings ==
    (codec.from = "row" /\ codec.st = "Key"
       /\ \A i \in 1..Len(codec.schema) : codec.schema[i] \in {"Bool", "Binary", "String"}) =>
        \A r2 \in KeyRows(codec.schema) :
            MemCmp(codec.key, EncodePrimaryKey(codec.schema, r2, "Ok").bytes)
              = TupleCmp(codec.schema, codec.row, r2, 1)

SignedIntTypes == {"Int8", "Int16", "Int32", "Int64"}

\* the big-endian bytes of (v + 2^(8w-1)) mod 2^(8w): the two's complement
\* bytes with the high bit of the first byte inverted
SignFlippedBE(v, w) ==
    LET b == WriteIBE(v, w) IN [b EXCEPT ![1] = (@ + 128) % 256]

\* C17: a signed integer column of w bytes is encoded as w big-endian bytes
\* with the sign bit flipped, so the encoding of a negative value is smaller
\* than the encoding of every non-negative value.
C17_SignFlip ==
    (Encoded /\ Len(codec.schema) = 1 /\ codec.schema[1] \in SignedIntTypes) =>
        /\ codec.st = "Key"
        /\ codec.key = SignFlippedBE(codec.row[1], TypeSize(codec.schema[1]))
        /\ \A v2 \in ColumnValues(codec.schema[1]) :
             (codec.row[1] < 0 /\ v2 >= 0) =>
                \A g \in GetI32Outcomes :
                    LET e2 == EncodePrimaryKey(codec.schema, << v2 >>, g) IN
                    e2.tag = "Ok" /\ MemCmp(codec.key, e2.bytes) = -1

\* the Int32 key -1 has been encoded as FF FF FF FF
C17_Witness ==
    /\ Encoded
    /\ codec.schema = <<"Int32">>
    /\ codec.row = << -1 >>
    /\ codec.key = << 255, 255, 255, 255 >>

\* C18: an Int64 column is encoded as the eight bytes decode_column reads for
\* it, big-endian with the sign bit flipped.
C18_Int64Width ==
    (Encoded /\ codec.schema = <<"Int64">>) =>
        /\ codec.st = "Key"
        /\ Len(codec.key) = 8
        /\ codec.key = SignFlippedBE(codec.row[1], 8)

\* an Int64 key has been encoded in four bytes
C18_Witness ==
    /\ Encoded
    /\ codec.schema = <<"Int64">>
    /\ codec.st = "Key"
    /\ Len(codec.key) = 4

\* C19: decoding a byte string that ends before the end of a fixed-width
\* column returns a Serialization error.
C19_TruncatedFixed ==
    (KeyDecoded /\ KeyWidth(codec.schema[1]) > 0
       /\ Len(codec.key) < KeyWidth(codec.schema[1])) =>
        /\ codec.out.tag = "Err"
        /\ codec.out.kind = "Serialization"

\* the decoder has panicked on the empty key of an Int32 column
C19_Witness ==
    /\ KeyDecoded
    /\ codec.schema = <<"Int32">>
    /\ codec.key = <<>>
    /\ codec.out.tag = "Panic"

RECURSIVE Escape(_)
\* a value with every 0x00 byte replaced by 0x00 0x01
Escape(v) ==
    IF v = <<>> THEN <<>>
    ELSE IF Head(v) = 0 THEN << 0, 1 >> \o Escape(Tail(v))
    ELSE << Head(v) >> \o Escape(Tail(v))

IsPrefix(p, q) == Len(p) <= Len(q) /\ SubSeq(q, 1, Len(p)) = p

\* key starts with the escaped and terminated form of a value
StartsWithField(key) ==
    \E v \in KeyInputs : IsPrefix(Escape(v) \o << 0, 0 >>, key)

\* key starts with the escaped bytes of a value followed by a 0x00 byte that
\* is followed by a byte other than 0x00 and 0x01
BadEscape(key) ==
    \E v \in KeyInputs :
        LET e == Escape(v) IN
        /\ IsPrefix(Append(e, 0), key)
        /\ Len(key) > Len(e) + 1
        /\ key[Len(e) + 2] \notin {0, 1}

\* key is the escaped bytes of a value followed by one 0x00 byte
ZeroAtEnd(key) == \E v \in KeyInputs : key = Append(Escape(v), 0)

\* key has no 0x00 0x00 at all
NoTerminator(key) == ~\E i \in 1..(Len(key) - 1) : key[i] = 0 /\ key[i + 1] = 0

\* the first column of the schema is a String or Binary column and not the last
FirstIsNonLastBinary(schema) == Len(schema) > 1 /\ schema[1] \in {"Binary", "String"}

\* C20: decoding a String or Binary column that is not the last returns a
\* Serialization error and no row when a 0x00 byte is followed by a byte other
\* than 0x00 and 0x01, when a 0x00 byte is the end of the input, and when the
\* input has no 0x00 0x00 terminator.
C20_InvalidEscape ==
    (KeyDecoded /\ FirstIsNonLastBinary(codec.schema)
       /\ (\/ BadEscape(codec.key)
           \/ ZeroAtEnd(codec.key)
           \/ NoTerminator(codec.key)
           \/ ~StartsWithField(codec.key))) =>
        /\ codec.out.tag = "Err"
        /\ codec.out.kind = "Serialization"
        /\ codec.out.row = <<>>

\* the key "a" 0x00 0x02 has been decoded under a (String, Int32) schema
C20_Witness ==
    /\ KeyDecoded
    /\ codec.schema = <<"String", "Int32">>
    /\ codec.key = << 97, 0, 2 >>
    /\ BadEscape(codec.key)
    /\ codec.out.tag = "Err"

\* every column of the schema has a fixed width
AllFixed(schema) == \A i \in 1..Len(schema) : KeyWidth(schema[i]) > 0

RECURSIVE FixedWidth(_)
\* the bytes the columns of an all-fixed schema take
FixedWidth(schema) ==
    IF schema = <<>> THEN 0 ELSE KeyWidth(Head(schema)) + FixedWidth(Tail(schema))

RECURSIVE ConsumedLen(_, _, _)
\* the bytes the columns from i on take in a key that decodes to row
ConsumedLen(schema, row, i) ==
    IF i > Len(schema) THEN 0
    ELSE (IF KeyWidth(schema[i]) > 0 THEN KeyWidth(schema[i])
          ELSE IF i = Len(schema) THEN Len(row[i])
          ELSE Len(Escape(row[i])) + 2)
         + ConsumedLen(schema, row, i + 1)

\* C21: decode_primary_key returns Ok only when the columns take the whole
\* byte string; bytes remaining after the last column give a Serialization
\* error and no row.
C21_RemainingBytes ==
    KeyDecoded =>
        /\ codec.out.tag = "Ok" =>
              ConsumedLen(codec.schema, codec.out.row, 1) = Len(codec.key)
        /\ (AllFixed(codec.schema) /\ Len(codec.key) > FixedWidth(codec.schema)) =>
              /\ codec.out.tag = "Err"
              /\ codec.out.kind = "Serialization"
              /\ codec.out.row = <<>>

\* a four-byte key has been decoded under an (Int16, Int8) schema
C21_Witness ==
    /\ KeyDecoded
    /\ codec.schema = <<"Int16", "Int8">>
    /\ Len(codec.key) = 4
    /\ codec.out.tag = "Err"

(***************************************************************************)
(* murmur2_64 (key.rs).  A u64 is held as its eight bytes, least           *)
(* significant first, so that the arithmetic is the arithmetic modulo 2^64 *)
(* of the code.                                                            *)
(***************************************************************************)
\* the longest input given to the hash
MaxHashLen == 15

\* a value below 2^31 as a u64
U64(n) ==
    << n % 256, (n \div 256) % 256, (n \div 65536) % 256, (n \div 16777216) % 256,
       0, 0, 0, 0 >>

\* m: u64 = 0xc6a4a7935bd1e995
MurmurM == << 149, 233, 209, 91, 147, 167, 164, 198 >>
\* r: u8 = 47
MurmurR == 47

RECURSIVE XorByte(_, _)
XorByte(a, b) ==
    IF a = 0 /\ b = 0 THEN 0
    ELSE ((a + b) % 2) + 2 * XorByte(a \div 2, b \div 2)

\* ^ on u64
XorU64(x, y) == [i \in 1..8 |-> XorByte(x[i], y[i])]

\* the sum of the byte products of x and y that fall on byte k
ColSum(x, y, k) ==
    LET S[i \in 0..k] == IF i = 0 THEN 0 ELSE S[i - 1] + x[i] * y[k + 1 - i] IN S[k]

RECURSIVE MulCols(_, _, _, _)
MulCols(x, y, k, carry) ==
    IF k > 8 THEN <<>>
    ELSE LET t == carry + ColSum(x, y, k) IN
         << t % 256 >> \o MulCols(x, y, k + 1, t \div 256)

\* a variant of the multiplication that drops the carries between the bytes
MulU64NoCarry(x, y) == [k \in 1..8 |-> ColSum(x, y, k) % 256]

\* u64::wrapping_mul: the low 64 bits of the product
MulU64(x, y) == MulCols(x, y, 1, 0)

\* >> on u64
ShrU64(x, r) ==
    LET bytes == r \div 8
        bits == r % 8
        B(i) == IF i <= 8 THEN x[i] ELSE 0 IN
    [i \in 1..8 |-> (B(i + bytes) \div (2 ^ bits))
                      + (B(i + bytes + 1) % (2 ^ bits)) * (2 ^ (8 - bits))]

\* (b as u64) << (8 * k)
ShlByte(b, k) == [i \in 1..8 |-> IF i = k + 1 THEN b ELSE 0]

\* NativeEndian::read_u64 on a little-endian target
ReadU64(data) == SubSeq(data, 1, 8)

RECURSIVE MurmurLoop(_, _)
\* the while loop of murmur2_64: the pair of h and the remaining data
MurmurLoop(data, h) ==
    IF Len(data) < 8 THEN << h, data >>
    ELSE LET k1 == MulU64(ReadU64(data), MurmurM)
             k2 == XorU64(k1, ShrU64(k1, MurmurR))
             k3 == MulU64(k2, MurmurM) IN
         MurmurLoop(SubSeq(data, 9, Len(data)), MulU64(XorU64(h, k3), MurmurM))

RECURSIVE MurmurTail(_, _, _)
\* the if statements on the remaining bytes, from data[i] down to data[0]
MurmurTail(data, h, i) ==
    LET h1 == IF Len(data) > i THEN XorU64(h, ShlByte(data[i + 1], i)) ELSE h IN
    IF i = 0 THEN (IF Len(data) > 0 THEN MulU64(h1, MurmurM) ELSE h1)
    ELSE MurmurTail(data, h1, i - 1)

\* murmur2_64
Murmur2_64(data, seed) ==
    LET h0 == XorU64(seed, MulU64(U64(Len(data)), MurmurM))
        l == MurmurLoop(data, h0)
        h1 == MurmurTail(l[2], l[1], 6)
        h2 == XorU64(h1, ShrU64(h1, MurmurR))
        h3 == MulU64(h2, MurmurM) IN
    XorU64(h3, ShrU64(h3, MurmurR))

\* "abcdefg" and "quick brown fox jumps"
HashTexts == { << 97, 98, 99, 100, 101, 102, 103 >>,
               << 113, 117, 105, 99, 107, 32, 98, 114, 111, 119, 110, 32, 102, 111, 120,
                  32, 106, 117, 109, 112, 115 >> }
HashSeeds == { 0, 1, 42 }

\* the inputs of the hash: the prefixes of the texts
HashInputs ==
    { SubSeq(t, 1, Min(n, Len(t))) : t \in HashTexts, n \in 0..MaxHashLen }

HashInit ==
    /\ table = MakeTable({}, <<FALSE>>, <<0>>)
    /\ builder = BuilderGone("")
    /\ scan = Unbuilt
    /\ cache = {}
    /\ attempts = {}
    /\ scanners = {}
    /\ lookups = <<>>
    /\ calls = <<>>
    /\ yielded = <<>>
    /\ ended = FALSE
    /\ failure = ""
    /\ dec = NoDec
    /\ iter = NoIter
    /\ error = NoError
    /\ meta_cache = NoMetaCache
    /\ replica_rpc = NoReplicaRpc
    /\ \E d \in HashInputs, sd \in HashSeeds :
         codec = [st |-> "HashInput", data |-> d, seed |-> sd, out |-> U64(0)]

\* murmur2_64
Hash ==
    /\ codec.st = "HashInput"
    /\ codec' = [codec EXCEPT !.st = "Hashed",
                              !.out = Murmur2_64(codec.data, U64(codec.seed))]
    /\ UNCHANGED << scanVars, dec, iter, error, meta_cache, replica_rpc >>

HashSpec == HashInit /\ [][Hash]_vars

\* the hash of data with seed has been computed and is h
HashIs(data, seed, h) ==
    (codec.st = "Hashed" /\ codec.data = data /\ codec.seed = seed) => codec.out = h

\* C22: murmur2_64 is the 64-bit Murmur2 hash, computed modulo 2^64:
\* murmur2_64("ab", 0) = 7115271465109541368 = 0x62BE85B2FE53D1F8,
\* murmur2_64("abcdefg", 0) = 2601573339036254301 = 0x241AA52B0A62005D,
\* murmur2_64("quick brown fox", 42) = 3575930248840144026 = 0x31A0419D7FB0E49A,
\* and every result is a 64-bit value.
C22_Murmur ==
    /\ HashIs(<< 97, 98 >>, 0, << 248, 209, 83, 254, 178, 133, 190, 98 >>)
    /\ HashIs(<< 97, 98, 99, 100, 101, 102, 103 >>, 0,
              << 93, 0, 98, 10, 43, 165, 26, 36 >>)
    /\ HashIs(<< 113, 117, 105, 99, 107, 32, 98, 114, 111, 119, 110, 32, 102, 111, 120 >>, 42,
              << 154, 228, 176, 127, 157, 65, 160, 49 >>)
    /\ codec.st = "Hashed" =>
          /\ Len(codec.out) = 8
          /\ \A i \in 1..8 : codec.out[i] \in 0..255

\* "quick brown fox" has been hashed with seed 42
C22_Witness ==
    /\ codec.st = "Hashed"
    /\ codec.seed = 42
    /\ Len(codec.data) = 15
    /\ codec.data[1] = 113
    /\ codec.out[1] = 154

(***************************************************************************)
(* The classification of errors (krpc error.rs).                           *)
(***************************************************************************)
\* RpcErrorCode
RpcErrorCodes ==
    { "ErrorApplication", "ErrorInvalidRequest", "ErrorNoSuchMethod", "ErrorNoSuchService",
      "ErrorRequestStale", "ErrorServerTooBusy", "ErrorUnavailable",
      "FatalDeserializingRequest", "FatalInvalidAuthenticationToken",
      "FatalInvalidRpcHeader", "FatalServerShuttingDown", "FatalUnauthorized",
      "FatalVersionMismatch", "FatalUnknown" }

\* the messages and the unsupported feature flags an error carries
ErrorMessages == { "", "m" }
FeatureFlags == { <<>>, << 1 >> }
\* the kinds of io::Error
IoErrorKinds == { "ConnectionRefused", "BrokenPipe", "UnexpectedEof" }

\* Error: Rpc(RpcError), Io, Serialization, TimedOut, Negotiation
MkError(kind, code, message, flags) ==
    [kind |-> kind, code |-> code, message |-> message,
     unsupported_feature_flags |-> flags]

Errors ==
    { MkError("Rpc", c, m, f) : c \in RpcErrorCodes, m \in ErrorMessages, f \in FeatureFlags }
      \cup { MkError("Io", k, "", <<>>) : k \in IoErrorKinds }
      \cup { MkError(k, "", m, <<>>) : k \in {"Serialization", "Negotiation"},
                                       m \in ErrorMessages }
      \cup { MkError("TimedOut", "", "", <<>>) }

\* RpcError::is_fatal
RpcIsFatal(e) ==
    e.code \in { "FatalDeserializingRequest", "FatalInvalidAuthenticationToken",
                 "FatalInvalidRpcHeader", "FatalServerShuttingDown", "FatalUnauthorized",
                 "FatalUnknown", "FatalVersionMismatch" }

\* a variant of Error::is_fatal that takes a timeout as fatal
ErrorIsFatalTimedOut(e) ==
    CASE e.kind = "Rpc" -> RpcIsFatal(e)
      [] OTHER -> TRUE

\* Error::is_fatal
ErrorIsFatal(e) ==
    CASE e.kind = "Rpc" -> RpcIsFatal(e)
      [] e.kind = "Io" -> TRUE
      [] e.kind = "Serialization" -> TRUE
      [] e.kind = "TimedOut" -> FALSE
      [] e.kind = "Negotiation" -> TRUE

\* a variant of RpcError::is_retriable that also retries a server shutting down
RpcIsRetriableShuttingDown(e) ==
    e.code \in { "ErrorServerTooBusy", "FatalServerShuttingDown" }

\* RpcError::is_retriable
RpcIsRetriable(e) == e.code = "ErrorServerTooBusy"

ErrorInit ==
    /\ table = MakeTable({}, <<FALSE>>, <<0>>)
    /\ builder = BuilderGone("")
    /\ scan = Unbuilt
    /\ cache = {}
    /\ attempts = {}
    /\ scanners = {}
    /\ lookups = <<>>
    /\ calls = <<>>
    /\ yielded = <<>>
    /\ ended = FALSE
    /\ failure = ""
    /\ dec = NoDec
    /\ iter = NoIter
    /\ codec = NoCodec
    /\ meta_cache = NoMetaCache
    /\ replica_rpc = NoReplicaRpc
    /\ \E e \in Errors :
         error = [e |-> e, called |-> {}, fatal |-> FALSE, retriable |-> FALSE]

\* Error::is_fatal
IsFatal ==
    /\ "is_fatal" \notin error.called
    /\ error' = [error EXCEPT !.called = @ \cup {"is_fatal"},
                              !.fatal = ErrorIsFatal(error.e)]
    /\ UNCHANGED << scanVars, dec, iter, codec, meta_cache, replica_rpc >>

\* RpcError::is_retriable
IsRetriable ==
    /\ error.e.kind = "Rpc"
    /\ "is_retriable" \notin error.called
    /\ error' = [error EXCEPT !.called = @ \cup {"is_retriable"},
                              !.retriable = RpcIsRetriable(error.e)]
    /\ UNCHANGED << scanVars, dec, iter, codec, meta_cache, replica_rpc >>

ErrorNext == IsFatal \/ IsRetriable

ErrorSpec == ErrorInit /\ [][ErrorNext]_vars

\* C23: an Rpc error is fatal exactly when its code is one of the seven
\* Fatal codes; Io, Serialization and Negotiation errors are always fatal; a
\* TimedOut error never is.
C23_IsFatal ==
    "is_fatal" \in error.called =>
        /\ error.e.kind = "Rpc" =>
              (error.fatal <=>
                 \/ error.e.code = "FatalDeserializingRequest"
                 \/ error.e.code = "FatalInvalidAuthenticationToken"
                 \/ error.e.code = "FatalInvalidRpcHeader"
                 \/ error.e.code = "FatalServerShuttingDown"
                 \/ error.e.code = "FatalUnauthorized"
                 \/ error.e.code = "FatalUnknown"
                 \/ error.e.code = "FatalVersionMismatch")
        /\ error.e.kind \in {"Io", "Serialization", "Negotiation"} => error.fatal
        /\ error.e.kind = "TimedOut" => ~error.fatal

\* is_fatal has been called on a TimedOut error
C23_Witness ==
    /\ "is_fatal" \in error.called
    /\ error.e.kind = "TimedOut"
    /\ ~error.fatal

\* C24: an RpcError is retriable exactly when its code is ServerTooBusy, and
\* none is both retriable and fatal.
C24_RetriableNotFatal ==
    /\ "is_retriable" \in error.called =>
          (error.retriable <=> error.e.code = "ErrorServerTooBusy")
    /\ error.called = {"is_fatal", "is_retriable"} =>
          ~(error.retriable /\ error.fatal)

\* both calls have been made on a ServerTooBusy error
C24_Witness ==
    /\ error.called = {"is_fatal", "is_retriable"}
    /\ error.e.code = "ErrorServerTooBusy"
    /\ error.retriable
    /\ ~error.fatal

(***************************************************************************)
(* The meta cache of one table on its own (meta_cache.rs), with several    *)
(* callers of TableLocations::entry.  Partition keys are 0..MaxMetaKey, 0  *)
(* being the empty key; a lower bound 0 is the empty lower bound and an    *)
(* upper bound MetaTop the empty upper bound.                              *)
(***************************************************************************)
\* the largest partition key
MaxMetaKey == 2
\* the callers of entry
MaxCallers == 2
\* max_returned_locations of a get-table-locations request
MaxReturned == 1

MetaKeys == 0..MaxMetaKey
MetaTop == MaxMetaKey + 1

\* an entry of the cache: a tablet or a non-covered range [lower, upper)
MetaEntry(tablet, lower, upper) == [tablet |-> tablet, lower |-> lower, upper |-> upper]

Contains(e, k) == e.lower <= k /\ k < e.upper
Overlaps(e1, e2) == e1.lower < e2.upper /\ e2.lower < e1.upper

\* the tablets a table can have
TabletRanges == { MetaEntry(TRUE, l, u) : l \in MetaKeys, u \in 1..MetaTop }

\* the tables: sets of tablets that do not overlap
MetaTables ==
    { t \in SUBSET { e \in TabletRanges : e.lower < e.upper } :
        \A e1, e2 \in t : e1 # e2 => ~Overlaps(e1, e2) }

\* the tablets of tbl that end after key, in key order, n at most: the
\* tablets of a get-table-locations response
RECURSIVE MasterLocations(_, _, _)
MasterLocations(tbl, key, n) ==
    LET after == { e \in tbl : e.upper > key } IN
    IF n = 0 \/ after = {} THEN <<>>
    ELSE LET first == CHOOSE e \in after : \A o \in after : e.lower <= o.lower IN
         << first >> \o MasterLocations(tbl, first.upper, n - 1)

\* the non-covered ranges a response for key implies: before the first
\* tablet, between two tablets, and after the last when the master has no
\* more tablets to return
ResponseGaps(key, tablets, n) ==
    IF tablets = <<>> THEN { MetaEntry(FALSE, key, MetaTop) }
    ELSE (IF key < tablets[1].lower
          THEN { MetaEntry(FALSE, key, tablets[1].lower) } ELSE {})
         \cup { MetaEntry(FALSE, tablets[i].upper, tablets[i + 1].lower) :
                  i \in { j \in 1..(Len(tablets) - 1) :
                            tablets[j].upper < tablets[j + 1].lower } }
         \cup (IF Len(tablets) < n /\ tablets[Len(tablets)].upper < MetaTop
               THEN { MetaEntry(FALSE, tablets[Len(tablets)].upper, MetaTop) } ELSE {})

\* the entries of a response
ResponseEntries(key, tablets, n) ==
    { tablets[i] : i \in 1..Len(tablets) } \cup ResponseGaps(key, tablets, n)

\* a variant of the merge that keeps every cached entry
MergeEntriesKeepOld(entries, new) == entries \cup new

\* the merge of a response into the cached entries: a cached entry that
\* overlaps an entry of the response gives way to it
MergeEntries(entries, new) ==
    { e \in entries : \A n \in new : ~Overlaps(e, n) } \cup new

CacheHit(entries, key) == \E e \in entries : Contains(e, key)
CachedEntry(entries, key) == CHOOSE e \in entries : Contains(e, key)

\* the calls of entry that wait for an answer
RECURSIVE SumWaiting(_, _)
SumWaiting(waiting, k) ==
    IF k < 0 THEN 0 ELSE waiting[k] + SumWaiting(waiting, k - 1)

\* a variant of entry that starts a fetch of its own on every miss
MetaEntryCallNoShare(m, key) ==
    IF CacheHit(m.entries, key) THEN m
    ELSE [m EXCEPT !.waiting[key] = @ + 1,
                   !.inflight[key] = @ + 1]

\* TableLocations::entry(key): a hit is ready at once, with CachedEntry, and
\* leaves the cache as it is; a miss waits for the fetch of key, starting it
\* when none is in flight
MetaEntryCall(m, key) ==
    IF CacheHit(m.entries, key) THEN m
    ELSE [m EXCEPT !.waiting[key] = @ + 1,
                   !.inflight[key] = IF @ = 0 THEN 1 ELSE @]

\* the response to the fetch of key arrives, from a master whose table is tbl:
\* it is merged and every call waiting for key gets the entry of key
MetaResponse(m, key, tbl) ==
    LET tablets == MasterLocations(tbl, key, MaxReturned)
        entries == MergeEntries(m.entries, ResponseEntries(key, tablets, MaxReturned))
    IN [m EXCEPT !.entries = entries,
                 !.inflight[key] = @ - 1,
                 !.waiting[key] = 0,
                 !.answered = Some([key |-> key, ok |-> TRUE])]

\* the fetch of key fails with a fatal master error, and so does every call
\* waiting for key
MetaFailure(m, key) ==
    [m EXCEPT !.inflight[key] = @ - 1,
              !.waiting[key] = 0,
              !.answered = Some([key |-> key, ok |-> FALSE])]

MetaInit ==
    /\ table = MakeTable({}, <<FALSE>>, <<0>>)
    /\ builder = BuilderGone("")
    /\ scan = Unbuilt
    /\ cache = {}
    /\ attempts = {}
    /\ scanners = {}
    /\ lookups = <<>>
    /\ calls = <<>>
    /\ yielded = <<>>
    /\ ended = FALSE
    /\ failure = ""
    /\ dec = NoDec
    /\ iter = NoIter
    /\ codec = NoCodec
    /\ error = NoError
    /\ replica_rpc = NoReplicaRpc
    /\ meta_cache = [st |-> "Cache", entries |-> {},
                     inflight |-> [k \in MetaKeys |-> 0],
                     waiting |-> [k \in MetaKeys |-> 0],
                     answered |-> None]

metaOther == << scanVars, dec, iter, codec, error, replica_rpc >>

\* a caller calls TableLocations::entry: MaxCallers calls wait at most
MetaCall ==
    /\ SumWaiting(meta_cache.waiting, MaxMetaKey) < MaxCallers
    /\ \E key \in MetaKeys : meta_cache' = MetaEntryCall(meta_cache, key)
    /\ UNCHANGED metaOther

\* the master answers a get-table-locations request with the tablets the
\* table has at that time: the table changes on the servers at any time
MetaRespond ==
    /\ \E key \in MetaKeys, tbl \in MetaTables :
         /\ meta_cache.inflight[key] > 0
         /\ meta_cache' = MetaResponse(meta_cache, key, tbl)
    /\ UNCHANGED metaOther

\* a get-table-locations request fails
MetaFail ==
    /\ \E key \in MetaKeys :
         /\ meta_cache.inflight[key] > 0
         /\ meta_cache' = MetaFailure(meta_cache, key)
    /\ UNCHANGED metaOther

\* ReplicaRpc reports a tablet that is gone: the cache drops it
MetaInvalidate ==
    /\ \E e \in meta_cache.entries :
         /\ e.tablet
         /\ meta_cache' = [meta_cache EXCEPT !.entries = @ \ {e}]
    /\ UNCHANGED metaOther

MetaNext == MetaCall \/ MetaRespond \/ MetaFail \/ MetaInvalidate

MetaSpec == MetaInit /\ [][MetaNext]_vars

(***************************************************************************)
(* Properties of the meta cache.                                           *)
(***************************************************************************)
\* a call of entry(key) misses in this step while another call waits for key
JoinsFetch(key) ==
    /\ meta_cache.waiting[key] > 0
    /\ meta_cache'.waiting[key] = meta_cache.waiting[key] + 1

\* the fetch of key is answered in this step
FetchAnswered(key) ==
    /\ meta_cache.inflight[key] = 1
    /\ meta_cache'.inflight[key] = 0

\* the entries that contain key
EntriesOf(entries, key) == { e \in entries : Contains(e, key) }

\* C25: the calls of entry(k) that miss the cache while a fetch of k is in
\* flight share it: one get-table-locations request is in flight for k at
\* most, and exactly while a call waits for k; a call that joins starts none;
\* and the answer completes every waiting call at once, with the one entry of
\* the merged cache that contains k, or with the failure of the fetch.
C25_OneLookup ==
    /\ [](meta_cache.st = "Cache" =>
            \A key \in MetaKeys :
                /\ meta_cache.inflight[key] <= 1
                /\ meta_cache.waiting[key] > 0 <=> meta_cache.inflight[key] = 1)
    /\ [][\A key \in MetaKeys :
            /\ JoinsFetch(key) => meta_cache'.inflight = meta_cache.inflight
            /\ FetchAnswered(key) =>
                  /\ meta_cache'.waiting[key] = 0
                  /\ meta_cache'.answered # None
                  /\ meta_cache'.answered[1].key = key
                  /\ IF meta_cache'.answered[1].ok
                     THEN Cardinality(EntriesOf(meta_cache'.entries, key)) = 1
                     ELSE meta_cache'.entries = meta_cache.entries
      ]_vars

\* two calls wait for the same key on one request
C25_Witness ==
    /\ meta_cache.st = "Cache"
    /\ \E key \in MetaKeys :
         /\ meta_cache.waiting[key] >= 2
         /\ meta_cache.inflight[key] = 1

\* e2 is the cached entry after e1
AdjacentEntries(entries, e1, e2) ==
    /\ e1 \in entries /\ e2 \in entries
    /\ e1.lower < e2.lower
    /\ ~\E e3 \in entries : e1.lower < e3.lower /\ e3.lower < e2.lower

\* only the first entry has an empty lower bound, only the last an empty
\* upper bound
EmptyBoundsAtExtremes(entries) ==
    \A e \in entries :
        /\ e.lower = 0 => ~\E o \in entries : o # e /\ o.lower <= e.lower
        /\ e.upper = MetaTop => ~\E o \in entries : o # e /\ o.lower >= e.lower

MaxTime == 4

\* the kinds of logical call
CallKinds == { "ReplicaRpc", "MetaCache" }

\* Backoff: the cap of the delay, in clock ticks (the base is one tick)
BackoffCap == 2

\* min(base * 2^(n-1), cap) * uniform(0.5, 1.5), a whole number of ticks
BackoffDelays(n) ==
    LET d == Min(2 ^ (n - 1), BackoffCap) IN
    { t \in 1..(2 * d) : 2 * t >= d /\ 2 * t <= 3 * d }

\* the errors an attempt returns
AttemptErrors ==
    { MkError("Rpc", c, "", <<>>) :
        c \in { "FatalUnauthorized", "FatalVersionMismatch", "FatalInvalidRpcHeader",
                "ErrorServerTooBusy" } }
      \cup { MkError("Io", k, "", <<>>) : k \in { "ConnectionRefused", "BrokenPipe" } }
      \cup { MkError("Serialization", "", "", <<>>) }

NoAttemptError == MkError("None", "", "", <<>>)
TimedOutError == MkError("TimedOut", "", "", <<>>)

\* a variant of the classification that retries after every error
AttemptIsTransientAlways(e) == TRUE

\* the classification of an attempt's error: a retriable RPC error and an
\* I/O error are local to the replica, every other error fails the call
AttemptIsTransient(e) ==
    \/ e.kind = "Rpc" /\ RpcIsRetriable(e)
    \/ e.kind = "Io"

\* a variant of the deadline check that sleeps on every wake time
WakeAllowedAlways(wake, deadline) == TRUE

\* the deadline check of a waitable point
WakeAllowed(wake, deadline) == wake <= deadline

\* the call fails: its attempts are cancelled
CallFailed(c, e) == [c EXCEPT !.st = "Failed", !.err = e, !.inflight = {}]

\* the error e of the attempt on replica r arrives
AttemptErrorArrives(c, r, e, delay) ==
    LET c1 == [c EXCEPT !.answered = @ + 1, !.last = [replica |-> r, e |-> e]] IN
    IF ~AttemptIsTransient(e) THEN CallFailed(c1, e)
    ELSE LET c2 == [c1 EXCEPT !.unavailable = @ \cup {r}, !.inflight = @ \ {r}] IN
         IF c2.inflight # {} THEN c2
         ELSE LET wake == c.now + delay IN
              IF WakeAllowed(wake, c.deadline)
              THEN [c2 EXCEPT !.wake = wake, !.computed = wake, !.retries = @ + 1]
              ELSE [CallFailed(c2, TimedOutError) EXCEPT !.computed = wake]

CallInit ==
    /\ table = MakeTable({}, <<FALSE>>, <<0>>)
    /\ builder = BuilderGone("")
    /\ scan = Unbuilt
    /\ cache = {}
    /\ attempts = {}
    /\ scanners = {}
    /\ lookups = <<>>
    /\ calls = <<>>
    /\ yielded = <<>>
    /\ ended = FALSE
    /\ failure = ""
    /\ dec = NoDec
    /\ iter = NoIter
    /\ codec = NoCodec
    /\ error = NoError
    /\ meta_cache = NoMetaCache
    /\ \E k \in CallKinds, dl \in 1..MaxTime :
         replica_rpc = [st |-> "Pending", kind |-> k, err |-> NoAttemptError, proxy |-> 0,
                        now |-> 0, deadline |-> dl, unavailable |-> {}, inflight |-> {},
                        wake |-> 0, computed |-> 0, retries |-> 0, sent |-> 0,
                        answered |-> 0,
                        last |-> [replica |-> 0, e |-> NoAttemptError]]

callOther == << scanVars, dec, iter, codec, error, meta_cache >>

\* the call sends an attempt to an eligible replica: the first one, or the
\* next one when the backoff is over
CallSend ==
    /\ replica_rpc.st = "Pending"
    /\ replica_rpc.inflight = {}
    /\ replica_rpc.now >= replica_rpc.wake
    /\ replica_rpc.now < replica_rpc.deadline
    /\ \E r \in Replicas \ replica_rpc.unavailable :
         replica_rpc' = [replica_rpc EXCEPT !.inflight = {r}, !.sent = @ + 1]
    /\ UNCHANGED callOther

\* Speculation: a parallel attempt starts on another eligible replica
CallSpeculate ==
    /\ replica_rpc.st = "Pending"
    /\ replica_rpc.inflight # {}
    /\ replica_rpc.now < replica_rpc.deadline
    /\ \E r \in Replicas \ (replica_rpc.unavailable \cup replica_rpc.inflight) :
         replica_rpc' = [replica_rpc EXCEPT !.inflight = @ \cup {r}, !.sent = @ + 1]
    /\ UNCHANGED callOther

\* an attempt succeeds: the call resolves and the other attempts are cancelled
AttemptOk ==
    /\ replica_rpc.st = "Pending"
    /\ \E r \in replica_rpc.inflight :
         replica_rpc' = [replica_rpc EXCEPT !.st = "Ok", !.proxy = r, !.inflight = {},
                                            !.answered = @ + 1,
                                            !.last = [replica |-> r, e |-> NoAttemptError]]
    /\ UNCHANGED callOther

\* an attempt returns an error
AttemptError ==
    /\ replica_rpc.st = "Pending"
    /\ \E r \in replica_rpc.inflight, e \in AttemptErrors,
          delay \in BackoffDelays(replica_rpc.retries + 1) :
         replica_rpc' = AttemptErrorArrives(replica_rpc, r, e, delay)
    /\ UNCHANGED callOther

\* the deadline of the call passes
CallDeadline ==
    /\ replica_rpc.st = "Pending"
    /\ replica_rpc.now >= replica_rpc.deadline
    /\ replica_rpc' = CallFailed(replica_rpc, TimedOutError)
    /\ UNCHANGED callOther

\* the clock
Tick ==
    /\ replica_rpc.st = "Pending"
    /\ replica_rpc.now < MaxTime
    /\ replica_rpc' = [replica_rpc EXCEPT !.now = @ + 1]
    /\ UNCHANGED callOther

CallNext == CallSend \/ CallSpeculate \/ AttemptOk \/ AttemptError \/ CallDeadline \/ Tick

CallSpec == CallInit /\ [][CallNext]_vars

\* the errors the call does not survive: authentication, version mismatch,
\* malformed header, and Serialization
IsCallFatal(e) ==
    \/ e.kind = "Rpc" /\ e.code \in { "FatalUnauthorized", "FatalVersionMismatch",
                                      "FatalInvalidRpcHeader" }
    \/ e.kind = "Serialization"

\* the errors local to a replica: connect failure, channel closed, ServerTooBusy
IsReplicaLocal(e) ==
    \/ e.kind = "Io" /\ e.code \in { "ConnectionRefused", "BrokenPipe" }
    \/ e.kind = "Rpc" /\ e.code = "ErrorServerTooBusy"

\* an attempt's error arrives in this step
ErrorArrives ==
    /\ replica_rpc'.answered = replica_rpc.answered + 1
    /\ replica_rpc'.last.e # NoAttemptError

\* C27: a fatal error (authentication, version mismatch, malformed header) or
\* a Serialization error of an attempt fails the logical call in the step it
\* arrives, with that error and with every attempt cancelled, and a failed call
\* sends no further attempt; a replica-local transient error (connect failure,
\* channel closed, ServerTooBusy) marks its replica unavailable for the call,
\* fails the call for no reason but the deadline, and leaves either another
\* attempt running or the next attempt scheduled after a backoff interval; an
\* attempt is sent only once the backoff is over and never to a replica marked
\* unavailable.
C27_FatalFailsTransientRetries ==
    /\ [](replica_rpc.st = "Failed" => replica_rpc.inflight = {})
    /\ [][ /\ (ErrorArrives /\ IsCallFatal(replica_rpc'.last.e))
               => /\ replica_rpc'.st = "Failed"
                  /\ replica_rpc'.err = replica_rpc'.last.e
                  /\ replica_rpc'.inflight = {}
                  /\ replica_rpc'.sent = replica_rpc.sent
           /\ replica_rpc.st = "Failed" => replica_rpc'.sent = replica_rpc.sent
           /\ (ErrorArrives /\ IsReplicaLocal(replica_rpc'.last.e))
               => /\ replica_rpc'.last.replica \in replica_rpc'.unavailable
                  /\ replica_rpc'.st \in { "Pending", "Failed" }
                  /\ replica_rpc'.st = "Failed" => replica_rpc'.err = TimedOutError
                  /\ replica_rpc'.st = "Pending"
                      => \/ replica_rpc'.inflight # {}
                         \/ /\ replica_rpc'.wake > replica_rpc.now
                            /\ replica_rpc'.retries = replica_rpc.retries + 1
           /\ replica_rpc'.sent > replica_rpc.sent
               => /\ replica_rpc.now >= replica_rpc.wake
                  /\ replica_rpc'.inflight \ replica_rpc.inflight # {}
                  /\ (replica_rpc'.inflight \ replica_rpc.inflight)
                        \cap replica_rpc.unavailable = {}
         ]_vars

\* a transient error has marked a replica unavailable, the backoff is over and
\* the second attempt is running on another replica
C27_Witness ==
    /\ replica_rpc.st = "Pending"
    /\ IsReplicaLocal(replica_rpc.last.e)
    /\ replica_rpc.unavailable = { replica_rpc.last.replica }
    /\ replica_rpc.sent = 2
    /\ replica_rpc.retries = 1
    /\ replica_rpc.now >= replica_rpc.wake
    /\ replica_rpc.inflight # {}
    /\ replica_rpc.inflight \cap replica_rpc.unavailable = {}

\* a retry is computed in this step: a transient error arrives and leaves no
\* attempt running
RetryComputed ==
    /\ ErrorArrives
    /\ AttemptIsTransient(replica_rpc'.last.e)
    /\ replica_rpc.inflight = { replica_rpc'.last.replica }

\* C28: a waitable point honors the deadline of its call: a pending call never
\* sleeps towards a wake time after its deadline; when the wake time computed
\* for a retry is after the deadline, the call fails with TimedOut in that very
\* step and the wake time it sleeps on does not change, and when it is not, the
\* call sleeps until it; no attempt is started once the deadline has passed, and
\* a call that failed starts none.
C28_DeadlineHonored ==
    /\ [](replica_rpc.st = "Pending" => replica_rpc.wake <= replica_rpc.deadline)
    /\ [][ /\ RetryComputed
               => /\ replica_rpc'.computed > replica_rpc.now
                  /\ IF replica_rpc'.computed > replica_rpc.deadline
                     THEN /\ replica_rpc'.st = "Failed"
                          /\ replica_rpc'.err = TimedOutError
                          /\ replica_rpc'.wake = replica_rpc.wake
                          /\ replica_rpc'.inflight = {}
                     ELSE /\ replica_rpc'.st = "Pending"
                          /\ replica_rpc'.wake = replica_rpc'.computed
           /\ replica_rpc'.sent > replica_rpc.sent
               => /\ replica_rpc.now < replica_rpc.deadline
                  /\ replica_rpc.st = "Pending"
         ]_vars

\* the wake time of a retry was computed after the deadline, and the call has
\* failed with TimedOut before the deadline passed
C28_Witness ==
    /\ replica_rpc.st = "Failed"
    /\ replica_rpc.err = TimedOutError
    /\ replica_rpc.computed > replica_rpc.deadline
    /\ replica_rpc.now < replica_rpc.deadline
    /\ IsReplicaLocal(replica_rpc.last.e)
    /\ replica_rpc.sent >= 1

\* the logical RPC of the TabletScan is the same one before and after the step
SameRpc ==
    /\ scan.state = "Scan"
    /\ scan'.state = "Scan"
    /\ scan'.tablet_scan.rpc.id = scan.tablet_scan.rpc.id

\* the attempts whose answer arrives in this step: a poll takes attempts
\* away only together with their call
Answered == { a \in attempts \ attempts' : SameRpc }

\* C29: under staggered speculation the logical call resolves exactly once:
\* the step that resolves it delivers the answer of one attempt of that call
\* and the result carries that attempt's replica as the proxy; once resolved,
\* the result never changes while the call lives; an answer that arrives for a
\* call that is resolved or gone changes neither the scan's state nor what was
\* yielded; and every attempt in flight belongs to the call the TabletScan
\* holds, so the attempts of a call are cancelled with it.
C29_FirstSuccessWins ==
    /\ [](\A a \in attempts : scan.state = "Scan" /\ a.rpc = scan.tablet_scan.rpc.id)
    /\ [][ /\ (SameRpc /\ scan.tablet_scan.rpc.res.tag = "Pending"
                       /\ scan'.tablet_scan.rpc.res.tag = "Ok")
               => \E a \in attempts \ attempts' :
                     /\ a.rpc = scan.tablet_scan.rpc.id
                     /\ a.replica \in scan.tablet_scan.rpc.tried
                     /\ scan'.tablet_scan.rpc.res.proxy = a.replica
                     /\ \A sid \in { scan'.tablet_scan.rpc.res.response[1].scanner_id } :
                           sid # None => sid[1] = ScannerIdOf(a)
           /\ (SameRpc /\ scan.tablet_scan.rpc.res.tag # "Pending")
               => scan'.tablet_scan.rpc.res = scan.tablet_scan.rpc.res
           /\ \A a \in Answered :
                 ~RpcAccepts(a) => scan' = scan /\ yielded' = yielded
         ]_vars

\* both replicas were tried under staggered speculation, the call is resolved
\* with the answer of one of them, and the answer of the other has arrived
C29_Witness ==
    /\ scan.state = "Scan"
    /\ scan.tablet_scan.rpc.speculation = "Staggered"
    /\ Cardinality(scan.tablet_scan.rpc.tried) >= 2
    /\ scan.tablet_scan.rpc.res.tag = "Ok"
    /\ scan.tablet_scan.rpc.res.proxy \in scan.tablet_scan.rpc.tried
    /\ Cardinality({ a \in attempts : a.rpc = scan.tablet_scan.rpc.id })
         <= Cardinality(scan.tablet_scan.rpc.tried) - 2

(***************************************************************************)
(* The scan, dropped by its consumer at any time.  Scan, ScannerState and  *)
(* TabletScan have no Drop of their own: the drop is the drop of their     *)
(* fields, the Lookup and the ReplicaRpc.                                  *)
(***************************************************************************)
\* drop(scan): the ReplicaRpc the TabletScan holds is dropped and its
\* attempts are cancelled; no request is sent
DropScan ==
    /\ scan.state \in { "Lookup", "Scan", "Finished" }
    /\ scan' = [scan EXCEPT !.state = "Dropped", !.lookup = NoLookup, !.tablet = 0,
                            !.tablet_scan = NoTabletScan]
    /\ attempts' = CancelAttempts(attempts, scan.tablet_scan.rpc.id)
    /\ UNCHANGED << table, builder, cache, scanners,
                    lookups, calls, yielded, ended, failure, dec, iter, codec, error, meta_cache, replica_rpc >>

DropNext == Next \/ DropScan

DropSpec == Init /\ [][DropNext]_vars

\* a request that closes the server-side scanner sid
CloseRequestFor(a, sid) ==
    /\ a.request.new_scan_request = None
    /\ a.request.scanner_id = Some(sid)
    /\ a.request.close_scanner = Some(TRUE)

\* C30: once the Scan is dropped no attempt of its logical call is in flight
\* and no lookup of it is pending, and for every server-side scanner that is
\* still open a close request is on its way.
C30_DropClosesScanner ==
    scan.state = "Dropped" =>
        /\ \A a \in attempts : \E s \in scanners : CloseRequestFor(a, s.id)
        /\ \A s \in scanners : \E a \in attempts : CloseRequestFor(a, s.id)

\* the part of C30 the drop keeps: nothing of the client is in flight
C30_DropCancels ==
    scan.state = "Dropped" => attempts = {} /\ scan.tablet_scan = NoTabletScan

\* the Scan was dropped between two batches of a tablet: the scanner the
\* open-scan created is still open on its replica and nothing is in flight
C30_Witness ==
    /\ scan.state = "Dropped"
    /\ yielded # <<>>
    /\ scanners # {}
    /\ attempts = {}

(***************************************************************************)
(* The transitions of Scan::poll and TabletScan::poll.                     *)
(***************************************************************************)
\* the key the Scan looked up last
LastLookup == lookups[Len(lookups)]

\* entry i of the table covers key
Covers(i, key) ==
    /\ KeyLE(table[i].lower_bound, key)
    /\ (table[i].upper_bound = None \/ KeyLess(key, table[i].upper_bound))

\* C31: a Scan whose lookup returned a tablet is in Scan on that tablet, the
\* one that covers the key looked up, with a TabletScan in New whose request
\* is an open-scan request: it carries the tablet's id in bytes and the
\* projected columns, name, type and nullability, in projection order, and no
\* scanner_id and no call_seq_id; every attempt of the call carries that
\* request; and a Scan leaves Lookup for Scan only with such a TabletScan.
C31_OpenScanRequest ==
    /\ []((scan.state = "Scan" /\ scan.tablet_scan.st = "New") =>
            LET req == scan.tablet_scan.rpc.request[1]
                t == table[scan.tablet]
                schema == scan.projected_schema
            IN /\ t.tablet
               /\ Covers(scan.tablet, LastLookup)
               /\ req.scanner_id = None
               /\ req.call_seq_id = None
               /\ req.new_scan_request # None
               /\ req.new_scan_request[1].tablet_id = << 48 + t.id >>
               /\ Len(req.new_scan_request[1].projected_columns) = Len(schema)
               /\ \A i \in 1..Len(schema) :
                     LET pb == req.new_scan_request[1].projected_columns[i] IN
                     /\ pb.name = schema[i].name
                     /\ pb.type_ = schema[i].type
                     /\ pb.is_nullable = << schema[i].nullable >>
               /\ \A a \in attempts : a.request = req)
    /\ [][(scan.state = "Lookup" /\ scan'.state = "Scan") =>
            /\ scan'.tablet_scan.st = "New"
            /\ scan'.tablet_scan.rpc.res.tag = "Pending"
            /\ scan'.projected_schema = scan.projected_schema
            /\ calls' = Append(calls, CallRecord(Len(calls) + 1, "open", scan'.tablet,
                                                 Len(calls) + 1, 0))
         ]_vars

\* the open-scan request of a projection of one column is on its way to a
\* replica of the second tablet
C31_Witness ==
    /\ scan.state = "Scan"
    /\ scan.tablet_scan.st = "New"
    /\ scan.tablet = 2
    /\ Len(scan.projected_schema) = 1
    /\ \E a \in attempts :
         /\ a.request.new_scan_request # None
         /\ a.request.new_scan_request[1].tablet_id = << 50 >>
         /\ Len(a.request.new_scan_request[1].projected_columns) = 1

\* the lookup of the Scan has returned the non-covered range i and the Scan
\* is polled in this step
PollOnNonCovered(i) ==
    /\ scan.state = "Lookup"
    /\ scan.lookup.res.tag = "Ready"
    /\ scan.lookup.res.idx = i
    /\ ~table[i].tablet
    /\ scan' # scan

\* C32: a poll that finds a non-covered range returned by the lookup ends the
\* Scan and returns end-of-stream when the upper bound of the range is empty,
\* and otherwise looks the upper bound up next, in that same poll, which goes
\* on from there; the poll yields nothing and
\* calls no tablet server for the range, and no call and no batch ever is of
\* a non-covered range.
C32_NonCoveredRange ==
    /\ [](/\ \A k \in 1..Len(calls) : table[calls[k].tablet].tablet
          /\ \A k \in 1..Len(yielded) : table[yielded[k].tablet].tablet
          /\ \A a \in attempts :
                a.request.new_scan_request # None =>
                    table[ParseTabletId(a.request.new_scan_request[1].tablet_id)].tablet)
    /\ [][\A i \in 1..Len(table) :
            PollOnNonCovered(i) =>
               IF table[i].upper_bound = <<>>
               THEN /\ scan'.state = "Finished"
                    /\ ended'
                    /\ failure' = failure
                    /\ lookups' = lookups
                    /\ calls' = calls
                    /\ yielded' = yielded
                    /\ attempts' = attempts
               ELSE /\ Len(lookups') > Len(lookups)
                    /\ lookups'[Len(lookups) + 1] = table[i].upper_bound
                    /\ yielded' = yielded
                    /\ \A k \in (Len(calls) + 1)..Len(calls') : calls'[k].tablet # i
         ]_vars

\* the first range of the table is not covered: its upper bound was looked up
\* next and the tablet after it is being scanned
C32_Witness ==
    /\ Len(table) = 2
    /\ ~table[1].tablet
    /\ table[2].tablet
    /\ lookups = << <<>>, table[1].upper_bound >>
    /\ scan.state = "Scan"
    /\ scan.tablet = 2
    /\ yielded # <<>>

\* the tablet scan is finished and the Scan is polled in this step: the
\* tablet scan reports the end of the tablet
PollOnEndOfTablet ==
    /\ scan.state = "Scan"
    /\ scan.tablet_scan.st = "Finished"
    /\ scan' # scan

\* C33: a poll of a Scan whose tablet scan reports the end of the tablet ends
\* the Scan, with end-of-stream, when the upper bound of the tablet is empty,
\* and otherwise looks that upper bound up next; it yields nothing.  A poll
\* that yields a batch is the poll of a Scan in Scan that stays in Scan on the
\* same tablet, looks nothing up, and yields one batch, of that tablet.
C33_EndOfTablet ==
    [][/\ PollOnEndOfTablet =>
            /\ yielded' = yielded
            /\ IF table[scan.tablet].upper_bound = <<>>
               THEN /\ scan'.state = "Finished"
                    /\ ended'
                    /\ failure' = failure
                    /\ lookups' = lookups
                    /\ calls' = calls
               ELSE /\ Len(lookups') > Len(lookups)
                    /\ lookups'[Len(lookups) + 1] = table[scan.tablet].upper_bound
       /\ yielded' # yielded =>
            /\ scan.state = "Scan"
            /\ scan.tablet_scan.rpc.res.tag = "Ok"
            /\ scan'.state = "Scan"
            /\ scan'.tablet = scan.tablet
            /\ scan'.lookup = scan.lookup
            /\ lookups' = lookups
            /\ ~ended'
            /\ Len(yielded') = Len(yielded) + 1
            /\ SubSeq(yielded', 1, Len(yielded)) = yielded
            /\ yielded'[Len(yielded')].tablet = scan.tablet
            /\ yielded'[Len(yielded')].rows = scan.tablet_scan.rpc.res.response[1].rows
      ]_vars

\* two batches of the first tablet were yielded, the tablet ended, and its
\* upper bound was looked up
C33_Witness ==
    /\ Len(table) = 2
    /\ table[1].tablet
    /\ Len(yielded) >= 2
    /\ \A k \in 1..Len(yielded) : yielded[k].tablet = 1
    /\ lookups = << <<>>, table[1].upper_bound >>

\* the logical call of the TabletScan is resolved with a response and the
\* Scan is polled in this step
PollOnResponse ==
    /\ scan.state = "Scan"
    /\ scan.tablet_scan.st \in { "New", "Continue" }
    /\ scan.tablet_scan.rpc.res.tag = "Ok"
    /\ scan' # scan

\* C34: the poll of a TabletScan whose call has a response decodes the batch
\* of the response and, unless it fails, yields it.  From New, a response with
\* has_more_results moves the TabletScan to Continue with the scanner_id of
\* the response, on the proxy that answered, and a response without it to
\* Finished; from Continue, a response without has_more_results moves it to
\* Finished and one with it to the next Continue of the same scanner on the
\* same proxy.
C34_TabletScanTransitions ==
    [][PollOnResponse =>
         LET ts == scan.tablet_scan
             response == ts.rpc.res.response[1]
             proxy == ts.rpc.res.proxy
             b == RowBatchNew(scan.projected_schema, UnwrapOrDefault(response.data),
                              response.sidecars)
             next == scan'.tablet_scan
         IN IF yielded' = yielded
            THEN /\ scan'.state = "Finished"
                 /\ failure' # ""
                 /\ \/ ~b.ok
                    \/ ts.st = "New" /\ response.has_more_results
                                     /\ response.scanner_id = None
            ELSE /\ b.ok
                 /\ yielded' = Append(yielded, [tablet |-> scan.tablet, emit |-> response.emit,
                                                rows |-> response.rows, batch |-> b.batch])
                 /\ scan'.state = "Scan"
                 /\ IF ~response.has_more_results
                    THEN next = TabletScanFinished
                    ELSE /\ next.st = "Continue"
                         /\ next.rpc.target = proxy
                         /\ next.rpc.res.tag = "Pending"
                         /\ next.rpc.request[1].new_scan_request = None
                         /\ IF ts.st = "New"
                            THEN /\ next.scanner_id = response.scanner_id[1]
                                 /\ next.rpc.request[1].scanner_id = response.scanner_id
                            ELSE /\ next.scanner_id = ts.scanner_id
                                 /\ next.rpc.request[1].scanner_id = << ts.scanner_id >>
      ]_vars

\* a tablet was scanned through New and Continue to Finished: its batches
\* were yielded and the last response had no more results
C34_Witness ==
    /\ scan.state = "Scan"
    /\ scan.tablet_scan = TabletScanFinished
    /\ Len(yielded) >= 2
    /\ \E k \in 1..Len(calls) : calls[k].kind = "continue" /\ calls[k].tablet = scan.tablet

(***************************************************************************)
(* The String and Binary columns of a primary key.                         *)
(***************************************************************************)
\* the schema has a String or Binary column, and Int32 columns besides
BinaryAndInt32(schema) ==
    /\ \E i \in 1..Len(schema) : schema[i] \in {"Binary", "String"}
    /\ \A i \in 1..Len(schema) : schema[i] \in {"Binary", "String", "Int32"}

\* the bytes a String or Binary value is to take in a key
BinaryField(v, is_last) == IF is_last THEN v ELSE Escape(v) \o << 0, 0 >>

RECURSIVE BinaryFieldsIn(_, _, _, _)
\* key, from column i on, is the fields of the row: the String and Binary
\* ones byte for byte, the Int32 ones four bytes each
BinaryFieldsIn(schema, row, i, key) ==
    IF i > Len(schema) THEN key = <<>>
    ELSE IF schema[i] = "Int32"
         THEN Len(key) >= 4
                /\ BinaryFieldsIn(schema, row, i + 1, SubSeq(key, 5, Len(key)))
         ELSE LET f == BinaryField(row[i], i = Len(schema)) IN
              IsPrefix(f, key)
                /\ BinaryFieldsIn(schema, row, i + 1, SubSeq(key, Len(f) + 1, Len(key)))

\* the value whose escaped and terminated form key starts with
FirstField(key) == CHOOSE v \in KeyInputs : IsPrefix(Escape(v) \o << 0, 0 >>, key)

\* C35: in the key of a row, a String or Binary column that is not the last
\* is its value with every 0x00 replaced by 0x00 0x01, followed by 0x00 0x00
\* (the empty value is 0x00 0x00), and one that is the last is its raw bytes
\* and nothing more; decoding the key gives the values back; and decoding a
\* key that starts with such a field under a schema whose first column is a
\* String or Binary column and not the last gives the value of the field
\* followed by what the columns after it decode from the bytes after the
\* 0x00 0x00.
C35_BinaryColumns ==
    /\ (Encoded /\ BinaryAndInt32(codec.schema)) =>
          /\ codec.st = "Key"
          /\ BinaryFieldsIn(codec.schema, codec.row, 1, codec.key)
    /\ (RoundTripDone /\ BinaryAndInt32(codec.schema)) =>
          /\ codec.out.tag = "Ok"
          /\ \A i \in 1..Len(codec.schema) :
                codec.schema[i] \in {"Binary", "String"} => codec.out.row[i] = codec.row[i]
    /\ (KeyDecoded /\ FirstIsNonLastBinary(codec.schema) /\ StartsWithField(codec.key)) =>
          LET v == FirstField(codec.key)
              rest == SubSeq(codec.key, Len(Escape(v)) + 3, Len(codec.key))
              sub == DecodePrimaryKey(Tail(codec.schema), rest)
          IN /\ codec.out.tag = sub.tag
             /\ codec.out.tag = "Ok" => codec.out.row = << v >> \o sub.row

\* a Binary value with an embedded 0x00 was encoded before another Binary
\* column and decoded again
C35_Witness ==
    /\ RoundTripDone
    /\ codec.st = "Decoded"
    /\ codec.schema = << "Binary", "Binary" >>
    /\ codec.row = << << 97, 0 >>, << 0, 98 >> >>
    /\ codec.key = << 97, 0, 1, 0, 0, 0, 98 >>
    /\ codec.out.tag = "Ok"
    /\ codec.out.row = codec.row

(***************************************************************************)
(* Polls that find nothing to do.                                          *)
(***************************************************************************)
\* the child of the Scan, the lookup or the tablet scan, is not ready
ChildNotReady ==
    \/ scan.state = "Lookup" /\ scan.lookup.res.tag = "Pending"
    \/ /\ scan.state = "Scan"
       /\ scan.tablet_scan.st \in { "New", "Continue" }
       /\ scan.tablet_scan.rpc.res.tag = "Pending"

\* what Scan::poll returns and leaves in this state, the first attempt of a
\* call going to replica pick
PollOutcome(pick) ==
    ScanPollLoop([scan |-> scan, lookups |-> lookups, calls |-> calls,
                  attempts |-> attempts], pick, LoopBound)

\* C36: a poll of a Scan whose child is not ready returns NotReady and leaves
\* the Scan in its state, with the same lookup or the same tablet, scanner and
\* logical call, and with the same histories of lookups and calls: all it may
\* do is let the call send its first attempt.  No step from such a state
\* yields a batch, ends the stream, looks a key up, makes a call or changes
\* the state of the Scan.
C36_NotReadyFrame ==
    /\ [](ChildNotReady =>
            \A pick \in Replicas :
               LET r == PollOutcome(pick) IN
               /\ r.ret = NotReady
               /\ r.w.scan.state = scan.state
               /\ r.w.scan.lookup = scan.lookup
               /\ r.w.scan.tablet = scan.tablet
               /\ r.w.scan.projected_schema = scan.projected_schema
               /\ r.w.scan.tablet_scan =
                     [scan.tablet_scan EXCEPT !.rpc.tried = r.w.scan.tablet_scan.rpc.tried]
               /\ r.w.lookups = lookups
               /\ r.w.calls = calls
               /\ attempts \subseteq r.w.attempts
               /\ \A a \in r.w.attempts \ attempts :
                     /\ scan.state = "Scan"
                     /\ scan.tablet_scan.rpc.tried = {}
                     /\ a.rpc = scan.tablet_scan.rpc.id
                     /\ a.request = scan.tablet_scan.rpc.request[1])
    /\ [][ChildNotReady =>
            /\ scan'.state = scan.state
            /\ scan'.tablet = scan.tablet
            /\ yielded' = yielded
            /\ ended' = ended
            /\ lookups' = lookups
            /\ calls' = calls
         ]_vars

\* a Scan in Scan was polled while its call had no response: the poll sent
\* the first attempt and nothing was yielded
C36_Witness ==
    /\ ChildNotReady
    /\ scan.state = "Scan"
    /\ scan.tablet_scan.rpc.tried # {}
    /\ attempts # {}
    /\ yielded = <<>>
    /\ ~ended
    /\ failure = ""

\* C37: once a poll has returned end-of-stream the Scan is Finished and stays
\* so: a poll returns end-of-stream and changes nothing, and no later step
\* yields a batch, reports an error, looks a key up, makes a call or sends an
\* attempt.
C37_FinishedAbsorbing ==
    /\ [](ended =>
            /\ scan.state = "Finished"
            /\ scan.lookup = NoLookup
            /\ scan.tablet_scan = NoTabletScan
            /\ \A pick \in Replicas :
                  PollOutcome(pick) =
                     [w |-> [scan |-> scan, lookups |-> lookups, calls |-> calls,
                             attempts |-> attempts],
                      ret |-> ReadyNone])
    /\ [][ended =>
            /\ ended'
            /\ scan' = scan
            /\ yielded' = yielded
            /\ failure' = failure
            /\ lookups' = lookups
            /\ calls' = calls
            /\ attempts' \subseteq attempts
         ]_vars

\* a scan that yielded a batch, failed with nothing, and ended
C37_Witness ==
    /\ ended
    /\ scan.state = "Finished"
    /\ Len(yielded) >= 1
    /\ Len(lookups) >= 1
    /\ Len(calls) >= 1
    /\ failure = ""

(***************************************************************************)
(* The scan against a tablet server whose open-scan response may announce  *)
(* more results without a usable scanner id.                               *)
(***************************************************************************)
ServerOpenScanFaulty == ServerOpenScanWith(BOOLEAN, { "Missing", "Malformed" })

FaultNext == Next \/ ServerOpenScanFaulty

FaultSpec == Init /\ [][FaultNext]_vars

\* the TabletScan holds an open-scan response that has more results and no
\* scanner id that parses
BadOpenResponse ==
    /\ scan.state = "Scan"
    /\ scan.tablet_scan.st = "New"
    /\ scan.tablet_scan.rpc.res.tag = "Ok"
    /\ scan.tablet_scan.rpc.res.response[1].has_more_results
    /\ ResponseScannerId(scan.tablet_scan.rpc.res.response[1]) = None

\* C38: a poll of a TabletScan holding such a response returns an error and
\* leaves no TabletScan in Continue; the step that takes the response yields
\* no batch, makes no call and sends no request, and no continue-scan call is
\* ever made with anything but a scanner id a response carried.
C38_MissingScannerId ==
    /\ [](BadOpenResponse =>
            \A pick \in Replicas :
               LET r == PollOutcome(pick) IN
               /\ r.ret.tag = "Err"
               /\ r.w.scan.tablet_scan.st # "Continue"
               /\ r.w.calls = calls
               /\ r.w.attempts \subseteq attempts)
    /\ [](scan.state = "Scan" /\ scan.tablet_scan.st = "Continue" =>
            ScannerIdParseBytes(scan.tablet_scan.scanner_id) # None)
    /\ [][BadOpenResponse /\ scan' # scan =>
            /\ failure' # ""
            /\ failure = ""
            /\ yielded' = yielded
            /\ calls' = calls
            /\ attempts' \subseteq attempts
            /\ scan'.state = "Finished"
         ]_vars

\* the open-scan request of a poll was answered with a row block that
\* decodes, more results and no scanner id that parses: the next poll fails
C38_Witness ==
    /\ BadOpenResponse
    /\ scan.tablet_scan.rpc.res.response[1].data # None
    /\ RowBatchNew(scan.projected_schema,
                   UnwrapOrDefault(scan.tablet_scan.rpc.res.response[1].data),
                   scan.tablet_scan.rpc.res.response[1].sidecars).ok
    /\ \A pick \in Replicas : PollOutcome(pick).w.scan.state = "Finished"
    /\ Len(calls) = 1
    /\ yielded = <<>>
    /\ failure = ""

(***************************************************************************)
(* One child at a time.                                                    *)
(***************************************************************************)
\* the Scan holds a lookup or a tablet scan, never both, and every attempt in
\* flight is one of the logical call of the tablet scan it holds, which is
\* the last call made
OneChild ==
    /\ scan.state = "Lookup" => scan.tablet_scan = NoTabletScan /\ attempts = {}
    /\ scan.state = "Finished" =>
          scan.lookup = NoLookup /\ scan.tablet_scan = NoTabletScan /\ attempts = {}
    /\ scan.state = "Scan" =>
          /\ scan.lookup = NoLookup
          /\ \A a \in attempts :
                /\ a.rpc = scan.tablet_scan.rpc.id
                /\ a.request = scan.tablet_scan.rpc.request[1]
          /\ scan.tablet_scan.st \in { "New", "Continue" } =>
                /\ calls # <<>>
                /\ calls[Len(calls)].id = scan.tablet_scan.rpc.id
          /\ scan.tablet_scan.st = "Finished" => attempts = {}

\* the call_seq_id of the request the TabletScan is waiting on: 0 stands for
\* the open-scan request
CurrentSeq ==
    IF scan.tablet_scan.st = "New" THEN 0 ELSE scan.tablet_scan.call_seq_id

\* C39: a Scan has one child at a time, a lookup or a tablet scan with one
\* logical call.  A key is looked up while a tablet is being scanned only
\* once that tablet has reported its end; a step makes at most one call; an
\* open-scan call is made only when no call is pending; and the continue-scan
\* call with call_seq_id n + 1 is made only by a step that starts with the
\* response to request n in hand, announcing more results.
C39_OneChild ==
    /\ []OneChild
    /\ [][/\ lookups' # lookups /\ scan.state = "Scan" =>
                scan.tablet_scan.st = "Finished"
          /\ calls' # calls =>
                /\ Len(calls') = Len(calls) + 1
                /\ SubSeq(calls', 1, Len(calls)) = calls
                /\ LET c == calls'[Len(calls')] IN
                   /\ c.kind = "open" /\ scan.state = "Scan" =>
                         scan.tablet_scan.st = "Finished"
                   /\ c.kind = "continue" =>
                         /\ scan.state = "Scan"
                         /\ scan.tablet_scan.st \in { "New", "Continue" }
                         /\ scan.tablet_scan.rpc.res.tag = "Ok"
                         /\ scan.tablet_scan.rpc.res.response[1].has_more_results
                         /\ calls[Len(calls)].id = scan.tablet_scan.rpc.id
                         /\ c.call_seq_id = CurrentSeq + 1
                         /\ yielded' # yielded
         ]_vars

\* the second continue-scan call of a scanner is pending with attempts in
\* flight, after two batches and one lookup
C39_Witness ==
    /\ scan.state = "Scan"
    /\ scan.tablet_scan.st = "Continue"
    /\ scan.tablet_scan.call_seq_id = 2
    /\ scan.tablet_scan.rpc.res.tag = "Pending"
    /\ attempts # {}
    /\ Len(yielded) = 2
    /\ Len(calls) = 3

(***************************************************************************)
(* One sidecar named twice.                                                *)
(***************************************************************************)
\* the block names one sidecar of the response as its rows and as its
\* indirect data
SameSidecar ==
    /\ dec.block.rows_sidecar # None
    /\ dec.block.indirect_data_sidecar = dec.block.rows_sidecar
    /\ dec.block.rows_sidecar[1] >= 0
    /\ dec.block.rows_sidecar[1] < Len(dec.sidecars)

\* C40: when a block names one valid sidecar as its rows and as its indirect
\* data, RowBatch::new succeeds exactly when the sidecar holds num_rows rows,
\* and the batch then has the sidecar's bytes as its row data and no indirect
\* data; when it names two sidecars the batch has the bytes of each.
C40_SidecarTakenOnce ==
    dec.done =>
       /\ SameSidecar =>
            LET sidecar == dec.sidecars[dec.block.rows_sidecar[1] + 1] IN
            /\ dec.out.ok <=>
                  CheckedMul(dec.block.num_rows, BatchRowLen(dec.schema))
                     = Some(Len(sidecar))
            /\ dec.out.ok =>
                  /\ Len(dec.out.batch.data) = Len(sidecar)
                  /\ dec.out.batch.indirect_data = <<>>
       /\ /\ dec.out.ok
          /\ dec.block.indirect_data_sidecar # None
          /\ dec.block.indirect_data_sidecar # dec.block.rows_sidecar
          => dec.out.batch.indirect_data =
                dec.sidecars[dec.block.indirect_data_sidecar[1] + 1]

\* a batch was built from a block naming one sidecar of two rows twice
C40_Witness ==
    /\ dec.done
    /\ SameSidecar
    /\ dec.out.ok
    /\ dec.block.num_rows = 2
    /\ Len(dec.out.batch.data) > 0
    /\ dec.out.batch.indirect_data = <<>>
====
